---------------------------- MODULE Spec2Model ----------------------------
(***************************************************************************)
(* A model of the EN -> PL lookup engine (app/wiki_diki.py, app/main.py,   *)
(* app/dsl_parser.py).                                                     *)
(*                                                                         *)
(* Strings are tuples of one-character strings, so that the text helpers   *)
(* (_clean_text, _strip_parentheticals, the URL pattern, the title         *)
(* decoding) are computed character by character as the code computes     *)
(* them.  The two dash characters of the code's punctuation set are        *)
(* written "ndash" and "mdash".                                            *)
(*                                                                         *)
(* A Python value that may be None is a tuple of length at most one:       *)
(* None is <<>> and a value x is <<x>>.                                    *)
(*                                                                         *)
(* The coroutines run on one event loop: the code between two awaits is    *)
(* one atomic step, and every await of a remote request is a point where   *)
(* other calls and the clock may move.                                     *)
(***************************************************************************)
EXTENDS Integers, Sequences, FiniteSets, TLC

VARIABLES
    now,      \* time.time(), in seconds
    ticks,    \* how many times the clock has advanced
    cache,    \* _cache: key -> [ts, data], a function on the stored keys
    calls,    \* every call of a memoized operation so far, in start order
    agg,      \* the aggregator requests (api_lookup / index) so far
    doc,      \* extractor runs: the parsed page handed to the extractor
    terms,    \* extractor runs: the list last extracted from doc
    xpc,      \* extractor runs: which extractor ran last
    dsl       \* a DSLParser: entries, index, the entry being filled

vars == <<now, ticks, cache, calls, agg, doc, terms, xpc, dsl>>

(***************************************************************************)
(* Bounds of the model.                                                    *)
(***************************************************************************)
MaxCalls == 2
MaxTicks == 2
MaxAgg == 1
MaxNodes == 2

(***************************************************************************)
(* Program constants.                                                      *)
(***************************************************************************)
CACHE_TTL == 60 * 60 * 6

None == <<>>
Some(x) == <<x>>

(***************************************************************************)
(* Characters and strings.                                                 *)
(***************************************************************************)
UpperChars ==
    <<"A","B","C","D","E","F","G","H","I","J","K","L","M",
      "N","O","P","Q","R","S","T","U","V","W","X","Y","Z">>
LowerChars ==
    <<"a","b","c","d","e","f","g","h","i","j","k","l","m",
      "n","o","p","q","r","s","t","u","v","w","x","y","z">>

\* str.lower(), one character
LowerChar(ch) ==
    IF \E i \in 1..26 : UpperChars[i] = ch
    THEN LowerChars[CHOOSE i \in 1..26 : UpperChars[i] = ch]
    ELSE ch

\* str.lower()
Lower(s) == [i \in 1..Len(s) |-> LowerChar(s[i])]

\* the characters str.strip() removes and \s matches
Whitespace == {" ", "\t", "\n", "\r"}

\* the argument of .strip(" ,;:–—-") in _clean_text
CleanPunct == {" ", ",", ";", ":", "ndash", "mdash", "-"}

\* the separator class [;,—–-] of diki_lookup's re.split
Separators == {";", ",", "mdash", "ndash", "-"}

RECURSIVE LStrip(_, _)
LStrip(s, set) ==
    IF s = <<>> THEN <<>>
    ELSE IF Head(s) \in set THEN LStrip(Tail(s), set)
    ELSE s

RECURSIVE RStrip(_, _)
RStrip(s, set) ==
    IF s = <<>> THEN <<>>
    ELSE IF s[Len(s)] \in set THEN RStrip(SubSeq(s, 1, Len(s) - 1), set)
    ELSE s

\* str.strip(chars)
Strip(s, set) == RStrip(LStrip(s, set), set)

\* re.sub(r"\s+", " ", s)
RECURSIVE CollapseWhitespace(_)
CollapseWhitespace(s) ==
    IF s = <<>> THEN <<>>
    ELSE IF Head(s) \in Whitespace
         THEN <<" ">> \o CollapseWhitespace(LStrip(Tail(s), Whitespace))
         ELSE <<Head(s)>> \o CollapseWhitespace(Tail(s))

\* (s or ""): None and "" both give ""
OrEmpty(v) == IF v = None THEN <<>> ELSE v[1]

\* _clean_text, on a string
clean_text(s) ==
    Strip(CollapseWhitespace(Strip(s, Whitespace)), CleanPunct)

\* the index of the first ch in s at or after position i, 0 when there is none
RECURSIVE IndexFrom(_, _, _)
IndexFrom(s, ch, i) ==
    IF i > Len(s) THEN 0
    ELSE IF s[i] = ch THEN i
    ELSE IndexFrom(s, ch, i + 1)

\* re.sub(r"\([^)]*\)", "", s): each "(" up to the first ")" after it is removed
RECURSIVE RemoveParens(_)
RemoveParens(s) ==
    IF s = <<>> THEN <<>>
    ELSE IF Head(s) = "(" /\ IndexFrom(s, ")", 2) # 0
         THEN RemoveParens(SubSeq(s, IndexFrom(s, ")", 2) + 1, Len(s)))
         ELSE <<Head(s)>> \o RemoveParens(Tail(s))

\* _strip_parentheticals
strip_parentheticals(s) == Strip(RemoveParens(s), Whitespace)

\* re.split(r"[;,—–-]", s, maxsplit=1)[0]: the text before the first separator
RECURSIVE BeforeSeparator(_)
BeforeSeparator(s) ==
    IF s = <<>> THEN <<>>
    ELSE IF Head(s) \in Separators THEN <<>>
    ELSE <<Head(s)>> \o BeforeSeparator(Tail(s))

\* _uniq: the non-empty strings of seq, each kept at its first occurrence
RECURSIVE uniq(_)
uniq(seq) ==
    IF seq = <<>> THEN <<>>
    ELSE LET rest == uniq(SubSeq(seq, 1, Len(seq) - 1))
             last == seq[Len(seq)]
         IN IF last # <<>> /\ ~(\E i \in 1..Len(rest) : rest[i] = last)
            THEN Append(rest, last)
            ELSE rest

StartsWith(s, p) == Len(s) >= Len(p) /\ SubSeq(s, 1, Len(p)) = p

Drop(s, n) == SubSeq(s, n + 1, Len(s))

\* re.sub(pat, rep, s) for a literal pattern: left to right, not overlapping
RECURSIVE ReplaceAll(_, _, _)
ReplaceAll(s, pat, rep) ==
    IF s = <<>> THEN <<>>
    ELSE IF StartsWith(s, pat)
         THEN rep \o ReplaceAll(Drop(s, Len(pat)), pat, rep)
         ELSE <<Head(s)>> \o ReplaceAll(Tail(s), pat, rep)

\* the stopwords of diki_lookup's add() and of _extract_polish_terms
Stopwords ==
    { <<"n","p",".">>, <<"n","p">>, <<"i","t","p",".">>, <<"i","t","d",".">> }

(***************************************************************************)
(* The expiring memoization store.                                         *)
(***************************************************************************)

\* faulty variant: the read never checks the entry's age
cache_get_key_never_expires(store, key, t) ==
    IF key \notin DOMAIN store THEN None ELSE store[key].data

\* _cache_get_key: what the read returns (None for no entry, for a stale
\* entry, and for an entry that holds None)
cache_get_key(store, key, t) ==
    IF key \notin DOMAIN store THEN None
    ELSE IF t - store[key].ts > CACHE_TTL THEN None
    ELSE store[key].data

\* faulty variant: a read sweeps every stale entry out of the store
cache_after_get_sweeps(store, key, t) ==
    [k \in {x \in DOMAIN store : t - store[x].ts <= CACHE_TTL} |-> store[k]]

\* _cache_get_key: the store after the read (a stale entry is popped)
cache_after_get(store, key, t) ==
    IF key \in DOMAIN store /\ t - store[key].ts > CACHE_TTL
    THEN [k \in DOMAIN store \ {key} |-> store[k]]
    ELSE store

\* _cache_set_key
cache_set_key(store, key, value, t) ==
    [k \in DOMAIN store \cup {key} |->
        IF k = key THEN [ts |-> t, data |-> value] ELSE store[k]]

(***************************************************************************)
(* Title Resolver: the reference-page URL pattern and the title decoding.  *)
(***************************************************************************)
StrHttpColon == <<"h","t","t","p",":","/","/">>
StrHttpsColon == <<"h","t","t","p","s",":","/","/">>
StrEnDot == <<"e","n",".">>
StrWikiHost == <<"w","i","k","i","p","e","d","i","a",".","o","r","g","/","w","i","k","i","/">>
StrHttp == <<"h","t","t","p">>

\* group 2 of re.match(r"^https?://(en\.)?wikipedia\.org/wiki/([^#\?]+)", s):
\* Some(path) on a match, None otherwise
RECURSIVE PathPrefix(_)
PathPrefix(s) ==
    IF s = <<>> THEN <<>>
    ELSE IF Head(s) \in {"#", "?"} THEN <<>>
    ELSE <<Head(s)>> \o PathPrefix(Tail(s))

wiki_url_match(s) ==
    LET afterScheme ==
            IF StartsWith(s, StrHttpsColon) THEN Some(Drop(s, Len(StrHttpsColon)))
            ELSE IF StartsWith(s, StrHttpColon) THEN Some(Drop(s, Len(StrHttpColon)))
            ELSE None
        afterEn ==
            IF afterScheme = None THEN None
            ELSE IF StartsWith(afterScheme[1], StrEnDot \o StrWikiHost)
                 THEN Some(Drop(afterScheme[1], Len(StrEnDot)))
                 ELSE afterScheme
        afterHost ==
            IF afterEn = None THEN None
            ELSE IF StartsWith(afterEn[1], StrWikiHost)
                 THEN Some(Drop(afterEn[1], Len(StrWikiHost)))
                 ELSE None
    IN IF afterHost = None THEN None
       ELSE IF PathPrefix(afterHost[1]) = <<>> THEN None
       ELSE Some(PathPrefix(afterHost[1]))

\* faulty variant: the underscores are kept
decode_title_keeps_underscores(raw) ==
    ReplaceAll(ReplaceAll(raw, <<"%","2","8">>, <<"(">>), <<"%","2","9">>, <<")">>)

\* raw.replace("_", " "), then re.sub of %28 and of %29
decode_title(raw) ==
    ReplaceAll(
        ReplaceAll(ReplaceAll(raw, <<"_">>, <<" ">>), <<"%","2","8">>, <<"(">>),
        <<"%","2","9">>, <<")">>)

(***************************************************************************)
(* HTML Extraction Pipeline, first source (diki_lookup).                   *)
(*                                                                         *)
(* A fetched body is what the code reads of it: whether its text holds     *)
(* each structural marker, whether html.fromstring parses it, and what     *)
(* each XPath selects.  A list item is its plainLink texts, its headword   *)
(* texts and its text content.                                             *)
(***************************************************************************)

\* "foreignToNativeMeanings" not in text and 'class="hw"' not in text
lacks_markers(body) == ~body.ftnm /\ ~body.hw

\* li_nodes: the specific selector, the broad one when it selects nothing
diki_li_nodes(body) ==
    IF body.ol_li # <<>> THEN body.ol_li ELSE body.meaning_li

\* add(val), on the list built so far
diki_add(results, val) ==
    LET v == clean_text(val)
    IN IF v = <<>> \/ Lower(v) \in Stopwords THEN results
       ELSE IF \E i \in 1..Len(results) : results[i] = v THEN results
       ELSE Append(results, v)

\* the values one list item hands to add(), in the order of the loop body
diki_li_values(li) ==
    li.links \o li.hws
        \o << BeforeSeparator(strip_parentheticals(li.content)) >>

RECURSIVE FoldAdd(_, _)
FoldAdd(results, vals) ==
    IF vals = <<>> THEN results
    ELSE FoldAdd(diki_add(results, Head(vals)), Tail(vals))

RECURSIVE diki_results(_, _)
diki_results(results, nodes) ==
    IF nodes = <<>> THEN results
    ELSE diki_results(FoldAdd(results, diki_li_values(Head(nodes))), Tail(nodes))

\* [_clean_text(x) for x in results if x]
RECURSIVE CleanAll(_)
CleanAll(seq) ==
    IF seq = <<>> THEN <<>>
    ELSE IF Head(seq) = <<>> THEN CleanAll(Tail(seq))
    ELSE <<clean_text(Head(seq))>> \o CleanAll(Tail(seq))

\* diki_lookup from the parsed document to the list it returns
diki_extract(body) ==
    uniq(CleanAll(diki_results(<<>>, diki_li_nodes(body))))

(***************************************************************************)
(* HTML Extraction Pipeline, second source (proz_lookup and                *)
(* proz_lookup_pairs).                                                     *)
(*                                                                         *)
(* A parsed page is what each XPath of the extractors selects from it:     *)
(*   containers  per "polish" container, the texts of its term nodes       *)
(*   li_texts    the texts of the list items after a "Polish" label        *)
(*   any_term    the texts of every node of class "term"                   *)
(*   blocks      the regions _find_blocks selects, root the whole page;    *)
(*               a region is its english scopes and its polish scopes,     *)
(*               a scope its term texts and its fallback texts             *)
(***************************************************************************)
RECURSIVE Flatten(_)
Flatten(seqs) ==
    IF seqs = <<>> THEN <<>> ELSE Head(seqs) \o Flatten(Tail(seqs))

\* [_clean_text(t) for t in texts]
MapClean(texts) == [i \in 1..Len(texts) |-> clean_text(texts[i])]

\* [_clean_text(_strip_parentheticals(t)) for t in texts]
MapCleanStripped(texts) ==
    [i \in 1..Len(texts) |-> clean_text(strip_parentheticals(texts[i]))]

\* faulty variant: the stopword comparison is case-sensitive
usable_term_case_sensitive(t) == t # <<>> /\ t \notin Stopwords

\* t and t.lower() not in {"np.", "np", "itp.", "itd."}
usable_term(t) == t # <<>> /\ Lower(t) \notin Stopwords

\* faulty variant: a stage with no usable term falls through to the next
polish_stage_terms_until_usable(d) ==
    LET stage1 == MapClean(Flatten(d.containers))
        stage2 == IF SelectSeq(stage1, usable_term) = <<>>
                  THEN MapCleanStripped(d.li_texts) ELSE stage1
    IN IF SelectSeq(stage2, usable_term) = <<>> THEN MapClean(d.any_term)
       ELSE stage2

\* pl_terms after the three stages, before the filter
polish_stage_terms(d) ==
    LET stage1 == MapClean(Flatten(d.containers))
        stage2 == IF stage1 = <<>> THEN MapCleanStripped(d.li_texts) ELSE stage1
    IN IF stage2 = <<>> THEN MapClean(d.any_term) ELSE stage2

\* _extract_polish_terms
extract_polish_terms(d) ==
    uniq(SelectSeq(polish_stage_terms(d), usable_term))

\* _find_blocks
find_blocks(d) == IF d.blocks # <<>> THEN d.blocks ELSE <<d.root>>

\* the loop over a scope list: the term texts of each scope, and its
\* fallback texts while nothing has been collected
RECURSIVE scope_terms(_, _)
scope_terms(acc, scopes) ==
    IF scopes = <<>> THEN acc
    ELSE LET withTerms == acc \o Head(scopes).terms
             withAlt == IF withTerms = <<>> THEN Head(scopes).alt ELSE withTerms
         IN scope_terms(withAlt, Tail(scopes))

cleans_nonempty(t) == clean_text(t) # <<>>

FirstN(seq, n) == SubSeq(seq, 1, IF Len(seq) < n THEN Len(seq) ELSE n)

\* faulty variant: every collected term enters the product
block_pairs_unlimited(b) ==
    IF b.en = <<>> \/ b.pl = <<>> THEN <<>>
    ELSE LET en_terms == MapClean(SelectSeq(scope_terms(<<>>, b.en), cleans_nonempty))
             pl_terms == MapCleanStripped(
                             SelectSeq(scope_terms(<<>>, b.pl), cleans_nonempty))
         IN IF en_terms = <<>> \/ pl_terms = <<>> THEN <<>>
            ELSE [k \in 1..(Len(en_terms) * Len(pl_terms)) |->
                    << en_terms[((k - 1) \div Len(pl_terms)) + 1],
                       pl_terms[((k - 1) % Len(pl_terms)) + 1] >>]

\* the pairs one region contributes
block_pairs(b) ==
    IF b.en = <<>> \/ b.pl = <<>> THEN <<>>
    ELSE LET en_terms == MapClean(SelectSeq(scope_terms(<<>>, b.en), cleans_nonempty))
             pl_terms == MapCleanStripped(
                             SelectSeq(scope_terms(<<>>, b.pl), cleans_nonempty))
             en3 == FirstN(en_terms, 3)
             pl5 == FirstN(pl_terms, 5)
         IN IF en_terms = <<>> \/ pl_terms = <<>> THEN <<>>
            ELSE [k \in 1..(Len(en3) * Len(pl5)) |->
                    << en3[((k - 1) \div Len(pl5)) + 1],
                       pl5[((k - 1) % Len(pl5)) + 1] >>]

RECURSIVE all_block_pairs(_)
all_block_pairs(blocks) ==
    IF blocks = <<>> THEN <<>>
    ELSE block_pairs(Head(blocks)) \o all_block_pairs(Tail(blocks))

\* faulty variant: equal pairs are not dropped
uniq_pairs_keeps_equal(pairs) ==
    SelectSeq(pairs, LAMBDA pr : pr[1] # <<>> /\ pr[2] # <<>>)

\* the de-dup loop of _extract_en_pl_pairs
RECURSIVE uniq_pairs(_)
uniq_pairs(pairs) ==
    IF pairs = <<>> THEN <<>>
    ELSE LET rest == uniq_pairs(SubSeq(pairs, 1, Len(pairs) - 1))
             last == pairs[Len(pairs)]
         IN IF /\ last[1] # <<>>
               /\ last[2] # <<>>
               /\ ~(\E i \in 1..Len(rest) : rest[i] = last)
            THEN Append(rest, last)
            ELSE rest

\* _extract_en_pl_pairs
extract_en_pl_pairs(d) == uniq_pairs(all_block_pairs(find_blocks(d)))

\* faulty variant: a maximum of zero is taken as a limit
truncate_zero_limits(seq, max) ==
    IF max # None /\ max[1] >= 0 THEN FirstN(seq, max[1]) ELSE seq

\* results[:max_results] if max_results and max_results > 0 else results
\* (max is None or Some(n))
truncate(seq, max) ==
    IF max # None /\ max[1] # 0 /\ max[1] > 0 THEN FirstN(seq, max[1]) ELSE seq

\* s.lower().startswith("http")
is_http(s) == StartsWith(Lower(s), StrHttp)

RECURSIVE TakeUntil(_, _)
TakeUntil(s, set) ==
    IF s = <<>> THEN <<>>
    ELSE IF Head(s) \in set THEN <<>>
    ELSE <<Head(s)>> \o TakeUntil(Tail(s), set)

RECURSIVE SplitOn(_, _)
SplitOn(s, ch) ==
    IF IndexFrom(s, ch, 1) = 0 THEN <<s>>
    ELSE <<SubSeq(s, 1, IndexFrom(s, ch, 1) - 1)>>
            \o SplitOn(Drop(s, IndexFrom(s, ch, 1)), ch)

Contains(s, ch) == IndexFrom(s, ch, 1) # 0

\* urllib.parse.urlparse(s): the text after the scheme's colon
url_after_scheme(s) ==
    IF Contains(s, ":") THEN Drop(s, IndexFrom(s, ":", 1)) ELSE s

\* urlparse(s).netloc
url_netloc(s) ==
    IF StartsWith(url_after_scheme(s), <<"/","/">>)
    THEN TakeUntil(Drop(url_after_scheme(s), 2), {"/", "?", "#"})
    ELSE <<>>

\* urlparse raises ValueError("Invalid IPv6 URL") on an unbalanced bracket
urlparse_raises(s) ==
    \/ Contains(url_netloc(s), "[") /\ ~Contains(url_netloc(s), "]")
    \/ Contains(url_netloc(s), "]") /\ ~Contains(url_netloc(s), "[")

\* urlparse(s).query: after the first "?" of the text before the first "#"
url_query(s) ==
    LET noFragment == TakeUntil(s, {"#"})
    IN IF Contains(noFragment, "?")
       THEN Drop(noFragment, IndexFrom(noFragment, "?", 1))
       ELSE <<>>

\* urllib.parse.unquote of a value with "+" read as a space; of the percent
\* escapes, those of the space and of the two parentheses are decoded
unquote_plus(s) ==
    ReplaceAll(
        ReplaceAll(
            ReplaceAll(ReplaceAll(s, <<"+">>, <<" ">>), <<"%","2","0">>, <<" ">>),
            <<"%","2","8">>, <<"(">>),
        <<"%","2","9">>, <<")">>)

\* parse_qs(query).get("term"): the values of the fields named term, blank
\* values and fields without "=" dropped
RECURSIVE term_values(_)
term_values(fields) ==
    IF fields = <<>> THEN <<>>
    ELSE LET f == Head(fields)
             eq == IndexFrom(f, "=", 1)
         IN IF /\ eq # 0
               /\ unquote_plus(SubSeq(f, 1, eq - 1)) = <<"t","e","r","m">>
               /\ Drop(f, eq) # <<>>
            THEN <<unquote_plus(Drop(f, eq))>> \o term_values(Tail(fields))
            ELSE term_values(Tail(fields))

\* parse_qs(urlparse(s).query).get("term", [s])[0]
url_query_term(s) ==
    LET vals == term_values(SplitOn(url_query(s), "&"))
    IN IF vals = <<>> THEN s ELSE vals[1]

(***************************************************************************)
(* Calls of the memoized operations.                                       *)
(*                                                                         *)
(* A call record holds the call's position (pc), its result (ret) and what *)
(* the properties read of its history: when it started (start), the      *)
(* entry the store held for its key when it started (seen), whether it     *)
(* returned the cached value (hit), how many remote requests it issued     *)
(* (reqs), the outcome of each (trail), the entry it wrote (wrote), the    *)
(* calls that had ended when it started (prior), and whether it reached    *)
(* html.fromstring (parsed).  loc is the operation's local between two     *)
(* awaits: the text of diki_lookup, the qid of the linked-data step.       *)
(***************************************************************************)
KeyName(op) ==
    CASE op = "resolve_en_title" -> "resolve_en_title"
      [] op = "english_to_polish_wikipedia" -> "english_to_polish_wikipedia"
      [] op = "diki_lookup" -> "diki_lookup"
      [] op = "proz_lookup" -> "proz_lookup_v2"
      [] op = "proz_lookup_pairs" -> "proz_lookup_pairs_v1"

NewCall(op, args, by) ==
    [ op |-> op, args |-> args, key |-> <<KeyName(op), args>>, by |-> by,
      pc |-> "pending", start |-> 0, seen |-> None, hit |-> FALSE,
      reqs |-> 0, trail |-> <<>>, ret |-> None, wrote |-> None, prior |-> {},
      loc |-> None, parsed |-> FALSE ]

Ended(c) == c.pc \in {"done", "raised"}

EndedIds == {i \in 1..Len(calls) : Ended(calls[i])}

\* the call as it enters its function body
Entered(c, store, t) ==
    [c EXCEPT !.start = t,
              !.seen = IF c.key \in DOMAIN store THEN Some(store[c.key]) ELSE None,
              !.prior = EndedIds]

\* return value
Ret(c, value, store, t) ==
    [ call |-> [c EXCEPT !.pc = "done", !.ret = value],
      cache |-> store ]

\* _cache_set_key(key, value); return value
SetRet(c, value, store, t) ==
    [ call |-> [c EXCEPT !.pc = "done", !.ret = value,
                         !.wrote = Some([ts |-> t, data |-> value])],
      cache |-> cache_set_key(store, c.key, value, t) ]

\* await _aget(...): the request is issued and the call is suspended
Await(c, step, store) ==
    [ call |-> [c EXCEPT !.pc = step, !.reqs = @ + 1], cache |-> store ]

\* an exception no handler of the operation catches
Raise(c, store, t) ==
    [ call |-> [c EXCEPT !.pc = "raised"], cache |-> store ]

\* what the trail keeps of a response: a usable one, one without a link, a
\* page without the structural markers, or an exception (the handlers do
\* not tell the exceptions apart)
Outcome(kind) == IF kind \in {"ok", "nolink", "bare"} THEN kind ELSE "error"

Logged(c, step, kind) ==
    [c EXCEPT !.trail = Append(@, [step |-> step, out |-> Outcome(kind)])]

\* the steps whose statements lie inside a try ... except Exception
TryBlocks ==
    { "search", "langlinks", "pageprops", "wbget",
      "fetch", "retry", "parse", "proz" }

\* faulty variant: the handlers catch the transport's exceptions only
GuardedTransportOnly(step, kind) == step \in TryBlocks /\ kind = "fail"

\* except Exception catches every kind of failure raised inside its try
Guarded(step, kind) == step \in TryBlocks

\* not x, for an optional string: None and "" are falsy
Falsy(v) == v = None \/ v[1] = <<>>

(***************************************************************************)
(* resolve_en_title                                                        *)
(***************************************************************************)
resolve_en_title(c, store, t) ==
    LET cached == cache_get_key(store, c.key, t)
        st == cache_after_get(store, c.key, t)
        s == Strip(OrEmpty(c.args[1]), Whitespace)
        m == wiki_url_match(s)
    IN IF cached # None THEN Ret([c EXCEPT !.hit = TRUE], cached, st, t)
       ELSE IF m # None THEN SetRet(c, Some(decode_title(m[1])), st, t)
       ELSE IF s = <<>> THEN SetRet(c, None, st, t)
       ELSE Await(c, "search", st)

\* faulty variant: a failed search returns None without storing it
resolve_en_title_search_failure_unstored(c, resp, store, t) ==
    LET c1 == Logged(c, "search", resp.kind)
    IN IF resp.kind = "ok" THEN SetRet(c1, resp.val, store, t)
       ELSE Ret(c1, None, store, t)

\* lines 124-131: the search response
resolve_en_title_search(c, resp, store, t) ==
    LET c1 == Logged(c, "search", resp.kind)
    IN IF resp.kind = "ok" THEN SetRet(c1, resp.val, store, t)
       ELSE IF Guarded("search", resp.kind) THEN SetRet(c1, None, store, t)
       ELSE Raise(c1, store, t)

(***************************************************************************)
(* english_to_polish_wikipedia                                             *)
(***************************************************************************)
cross_reference(en_title, link) ==
    [en_title |-> en_title, pl_title |-> link.title, pl_url |-> link.url]

\* faulty variant: the empty-input check is missing
english_to_polish_wikipedia_unchecked(c, store, t) ==
    LET cached == cache_get_key(store, c.key, t)
        st == cache_after_get(store, c.key, t)
    IN IF cached # None THEN Ret([c EXCEPT !.hit = TRUE], cached, st, t)
       ELSE Await(c, "langlinks", st)

english_to_polish_wikipedia(c, store, t) ==
    LET cached == cache_get_key(store, c.key, t)
        st == cache_after_get(store, c.key, t)
    IN IF cached # None THEN Ret([c EXCEPT !.hit = TRUE], cached, st, t)
       ELSE IF Falsy(c.args[1]) THEN SetRet(c, None, st, t)
       ELSE Await(c, "langlinks", st)

\* faulty variant: an exception in the direct step aborts the lookup
english_to_polish_langlinks_aborts(c, resp, store, t) ==
    LET c1 == Logged(c, "langlinks", resp.kind)
    IN IF resp.kind = "ok"
       THEN SetRet(c1, Some(cross_reference(c.args[1][1], resp.val[1])), store, t)
       ELSE IF resp.kind = "nolink" THEN Await(c1, "pageprops", store)
       ELSE SetRet(c1, None, store, t)

\* lines 153-162, and the request of line 173
english_to_polish_langlinks(c, resp, store, t) ==
    LET c1 == Logged(c, "langlinks", resp.kind)
    IN IF resp.kind = "ok"
       THEN SetRet(c1, Some(cross_reference(c.args[1][1], resp.val[1])), store, t)
       ELSE IF resp.kind = "nolink" \/ Guarded("langlinks", resp.kind)
       THEN Await(c1, "pageprops", store)
       ELSE Raise(c1, store, t)

\* lines 173-174, and the request of line 183
english_to_polish_pageprops(c, resp, store, t) ==
    LET c1 == Logged(c, "pageprops", resp.kind)
    IN IF resp.kind = "ok" THEN Await([c1 EXCEPT !.loc = resp.val], "wbget", store)
       ELSE IF Guarded("pageprops", resp.kind) THEN SetRet(c1, None, store, t)
       ELSE Raise(c1, store, t)

\* lines 183-190
english_to_polish_wbget(c, resp, store, t) ==
    LET c1 == Logged(c, "wbget", resp.kind)
    IN IF resp.kind = "ok"
       THEN SetRet(c1, Some(cross_reference(c.args[1][1], resp.val[1])), store, t)
       ELSE IF Guarded("wbget", resp.kind) THEN SetRet(c1, None, store, t)
       ELSE Raise(c1, store, t)

(***************************************************************************)
(* diki_lookup                                                             *)
(***************************************************************************)
\* faulty variant: "if cached:" in place of "if cached is not None:"
diki_lookup_truthy_hit(c, store, t) ==
    LET cached == cache_get_key(store, c.key, t)
        st == cache_after_get(store, c.key, t)
        english_term == Strip(OrEmpty(c.args[1]), Whitespace)
    IN IF cached # None /\ cached[1] # <<>>
       THEN Ret([c EXCEPT !.hit = TRUE], cached, st, t)
       ELSE IF english_term = <<>> THEN SetRet(c, Some(<<>>), st, t)
       ELSE Await(c, "fetch", st)

diki_lookup(c, store, t) ==
    LET cached == cache_get_key(store, c.key, t)
        st == cache_after_get(store, c.key, t)
        english_term == Strip(OrEmpty(c.args[1]), Whitespace)
    IN IF cached # None THEN Ret([c EXCEPT !.hit = TRUE], cached, st, t)
       ELSE IF english_term = <<>> THEN SetRet(c, Some(<<>>), st, t)
       ELSE Await(c, "fetch", st)

\* faulty variant: the extracted list is returned without being stored
diki_lookup_parse_unstored(c, body, store, t) ==
    LET c1 == [c EXCEPT !.parsed = TRUE, !.loc = Some(body)]
    IN IF body.parses THEN Ret(c1, Some(diki_extract(body)), store, t)
       ELSE SetRet(c1, Some(<<>>), store, t)

\* lines 222-253: parse the text and extract
diki_lookup_parse(c, body, store, t) ==
    LET c1 == [c EXCEPT !.parsed = TRUE, !.loc = Some(body)]
    IN IF body.parses THEN SetRet(c1, Some(diki_extract(body)), store, t)
       ELSE IF Guarded("parse", "decode") THEN SetRet(c1, Some(<<>>), store, t)
       ELSE Raise(c1, store, t)

\* a fetched page is "bare" when its text holds neither marker
page_kind(resp) ==
    IF resp.kind = "ok" /\ lacks_markers(resp.val[1]) THEN "bare" ELSE resp.kind

\* faulty variant: a failed first request is retried as well
diki_lookup_fetch_retries_failure(c, resp, store, t) ==
    LET c1 == Logged(c, "fetch", page_kind(resp))
    IN IF resp.kind = "ok" /\ ~lacks_markers(resp.val[1])
       THEN diki_lookup_parse(c1, resp.val[1], store, t)
       ELSE [ call |-> [c1 EXCEPT !.pc = "sleep", !.loc = resp.val],
              cache |-> store ]

\* lines 206-214: the first response
diki_lookup_fetch(c, resp, store, t) ==
    LET c1 == Logged(c, "fetch", page_kind(resp))
    IN IF resp.kind = "ok"
       THEN IF lacks_markers(resp.val[1])
            THEN [ call |-> [c1 EXCEPT !.pc = "sleep", !.loc = resp.val],
                   cache |-> store ]
            ELSE diki_lookup_parse(c1, resp.val[1], store, t)
       ELSE IF Guarded("fetch", resp.kind) THEN SetRet(c1, Some(<<>>), store, t)
       ELSE Raise(c1, store, t)

\* lines 214-216: the sleep is over, the retry is issued
diki_lookup_wake(c, store) == Await(c, "retry", store)

\* lines 216-220: the retry's response
diki_lookup_retry(c, resp, store, t) ==
    LET c1 == Logged(c, "retry", page_kind(resp))
    IN IF resp.kind = "ok" THEN diki_lookup_parse(c1, resp.val[1], store, t)
       ELSE IF Guarded("retry", resp.kind) THEN SetRet(c1, Some(<<>>), store, t)
       ELSE Raise(c1, store, t)

(***************************************************************************)
(* proz_lookup and proz_lookup_pairs                                       *)
(***************************************************************************)

\* _fetch_proz: the document, or None on any failure
fetch_proz(resp) == IF resp.kind = "ok" THEN resp.val ELSE None

\* whether a failure inside _fetch_proz escapes its try block
fetch_proz_raises(resp) == resp.kind # "ok" /\ ~Guarded("proz", resp.kind)

proz_lookup(c, store, t) ==
    LET cached == cache_get_key(store, c.key, t)
        st == cache_after_get(store, c.key, t)
    IN IF cached # None THEN Ret([c EXCEPT !.hit = TRUE], cached, st, t)
       ELSE Await(c, "proz", st)

\* lines 367-374
proz_lookup_fetched(c, resp, store, t) ==
    LET c1 == Logged(c, "proz", resp.kind)
        d == fetch_proz(resp)
    IN IF fetch_proz_raises(resp) THEN Raise(c1, store, t)
       ELSE IF d = None THEN SetRet(c1, Some(<<>>), store, t)
       ELSE SetRet([c1 EXCEPT !.parsed = TRUE],
                   Some(truncate(extract_polish_terms(d[1]), c.args[2])), store, t)

proz_lookup_pairs(c, store, t) ==
    LET cached == cache_get_key(store, c.key, t)
        st == cache_after_get(store, c.key, t)
    IN IF cached # None THEN Ret([c EXCEPT !.hit = TRUE], cached, st, t)
       ELSE Await(c, "proz", st)

\* faulty variant: the query term of a URL input is the URL itself
pairs_query_term_raw(s) == s

\* query_term of lines 386-394
pairs_query_term(s) == IF is_http(s) THEN url_query_term(s) ELSE s

\* lines 400-403
pairs_or_fallback(d, query_term) ==
    IF extract_en_pl_pairs(d) # <<>> THEN extract_en_pl_pairs(d)
    ELSE [i \in 1..Len(extract_polish_terms(d)) |->
            <<query_term, extract_polish_terms(d)[i]>>]

\* lines 389-407
proz_lookup_pairs_fetched(c, resp, store, t) ==
    LET c1 == Logged(c, "proz", resp.kind)
        s == Strip(OrEmpty(c.args[1]), Whitespace)
        d == fetch_proz(resp)
    IN IF fetch_proz_raises(resp) THEN Raise(c1, store, t)
       ELSE IF is_http(s) /\ urlparse_raises(s) THEN Raise(c1, store, t)
       ELSE IF d = None THEN SetRet(c1, Some(<<>>), store, t)
       ELSE SetRet([c1 EXCEPT !.parsed = TRUE],
                   Some(truncate(pairs_or_fallback(d[1], pairs_query_term(s)),
                                 c.args[2])), store, t)

\* the call's code up to its first await
first_segment(c, store, t) ==
    CASE c.op = "resolve_en_title" -> resolve_en_title(c, store, t)
      [] c.op = "english_to_polish_wikipedia" -> english_to_polish_wikipedia(c, store, t)
      [] c.op = "diki_lookup" -> diki_lookup(c, store, t)
      [] c.op = "proz_lookup" -> proz_lookup(c, store, t)
      [] c.op = "proz_lookup_pairs" -> proz_lookup_pairs(c, store, t)

(***************************************************************************)
(* The inputs and the remote responses the model draws from.               *)
(***************************************************************************)
WikiUrl == StrHttpsColon \o StrEnDot \o StrWikiHost \o <<"a","_","%","2","8","b","%","2","9","#","c">>
Term == <<"t">>
Blank == <<" ">>
Title == <<"T">>
ProzUrl == <<"h","t","t","p","s",":","/","/","p","/","?","e","s","=","1","&","t","e","r","m","=","t","+","u">>
BadUrl == <<"h","t","t","p",":","/","/","[">>

PlLink == [title |-> <<"P">>, url |-> <<"u">>]
\* a link object whose title and url are empty strings
BlankLink == [title |-> <<>>, url |-> <<>>]
Qid == <<"Q","1">>

LiFull == [links |-> << <<"k">> >>, hws |-> <<>>, content |-> <<"k"," ","(","x",")">>]
LiBare == [links |-> <<>>, hws |-> <<>>, content |-> <<"m",";"," ","n">>]

\* a page with both markers and a foreignToNativeMeanings list
BodyFull ==
    [ftnm |-> TRUE, hw |-> TRUE, parses |-> TRUE,
     ol_li |-> <<LiFull>>, meaning_li |-> <<>>]
\* a page without the markers whose items only the broad selector finds
BodyBare ==
    [ftnm |-> FALSE, hw |-> FALSE, parses |-> TRUE,
     ol_li |-> <<>>, meaning_li |-> <<LiBare>>]
\* an empty body: html.fromstring raises on it
BodyEmpty ==
    [ftnm |-> FALSE, hw |-> FALSE, parses |-> FALSE,
     ol_li |-> <<>>, meaning_li |-> <<>>]

DikiBodies == {BodyFull, BodyBare, BodyEmpty}

NoScopes == [en |-> <<>>, pl |-> <<>>]
\* a page of plain terms, no region with both language labels
ProzTermsPage ==
    [containers |-> << << <<"p">>, <<"q">> >> >>, li_texts |-> <<>>,
     any_term |-> << <<"p">>, <<"q">> >>, blocks |-> <<>>, root |-> NoScopes]
\* a page with one region holding both language labels
ProzPairsPage ==
    [containers |-> << << <<"p">> >> >>, li_texts |-> <<>>,
     any_term |-> << <<"e">>, <<"p">> >>,
     blocks |-> << [en |-> << [terms |-> << <<"e">> >>, alt |-> <<>>] >>,
                    pl |-> << [terms |-> << <<"p">> >>, alt |-> <<>>] >>] >>,
     root |-> NoScopes]

ProzDocs == {ProzTermsPage, ProzPairsPage}

Failure(kind) == [kind |-> kind, val |-> None]
Success(x) == [kind |-> "ok", val |-> Some(x)]

\* transport failure, malformed body, expected key absent
FailureKinds == {"fail", "decode", "miss"}

SearchResponses == {Failure(k) : k \in FailureKinds} \cup {Success(Title)}
LanglinksResponses ==
    {Failure(k) : k \in FailureKinds \cup {"nolink", "badlink"}}
        \cup {Success(PlLink), Success(BlankLink)}
PagepropsResponses == {Failure(k) : k \in FailureKinds} \cup {Success(Qid)}
WbgetResponses ==
    {Failure(k) : k \in FailureKinds} \cup {Success(PlLink), Success(BlankLink)}
DikiResponses == {Failure("fail")} \cup {Success(b) : b \in DikiBodies}
ProzResponses == {Failure("fail"), Failure("decode")} \cup {Success(d) : d \in ProzDocs}

\* the calls a caller may make: the operation and its arguments
Requests ==
    {<<"resolve_en_title", <<Some(q)>> >> : q \in {WikiUrl, Term, Blank}}
    \cup {<<"english_to_polish_wikipedia", <<v>> >> : v \in {None, Some(<<>>), Some(Title)}}
    \cup {<<"diki_lookup", <<Some(q)>> >> : q \in {Term, Blank}}
    \cup {<<"proz_lookup", a>> :
            a \in {<<Some(Term), Some(1)>>, <<Some(ProzUrl), None>>,
                   <<Some(Blank), Some(1)>>}}
    \cup {<<"proz_lookup_pairs", a>> :
            a \in {<<Some(Term), Some(1)>>, <<Some(ProzUrl), Some(0)>>,
                   <<Some(BadUrl), Some(25)>>, <<Some(Blank), Some(1)>>}}

(***************************************************************************)
(* The state machine.                                                      *)
(***************************************************************************)
\* DSLParser.__init__: no entry, an empty index; `current` is the key of
\* the entry parse_file is filling (current_entry), `read` counts the lines
DSLParser == [entries |-> <<>>, index |-> <<>>, current |-> None, read |-> 0]

NoDoc == [kind |-> "none", page |-> <<>>, q |-> None, max |-> None]

Init ==
    /\ now = 0
    /\ ticks = 0
    /\ cache = <<>>
    /\ calls = <<>>
    /\ agg = <<>>
    /\ doc = NoDoc
    /\ terms = <<>>
    /\ xpc = "idle"
    /\ dsl = DSLParser

xvars == <<doc, terms, xpc, dsl>>

Apply(i, base, r) ==
    /\ calls' = [base EXCEPT ![i] = r.call]
    /\ cache' = r.cache

\* time passes
Tick ==
    /\ ticks < MaxTicks
    /\ \E d \in {1, CACHE_TTL} : now' = now + d
    /\ ticks' = ticks + 1
    /\ UNCHANGED <<cache, calls, agg, xvars>>

\* a caller awaits an operation: the call runs to its first await
Call ==
    /\ Len(calls) < MaxCalls
    /\ \E rq \in Requests :
         LET c == Entered(NewCall(rq[1], rq[2], 0), cache, now)
         IN Apply(Len(calls) + 1, Append(calls, c), first_segment(c, cache, now))
    /\ UNCHANGED <<now, ticks, agg, xvars>>

\* a task created by asyncio.gather runs to its first await
Begin ==
    /\ \E i \in 1..Len(calls) :
         /\ calls[i].pc = "pending"
         /\ LET c == Entered(calls[i], cache, now)
            IN Apply(i, calls, first_segment(c, cache, now))
    /\ UNCHANGED <<now, ticks, agg, xvars>>

SearchReturns ==
    /\ \E i \in 1..Len(calls), resp \in SearchResponses :
         /\ calls[i].pc = "search"
         /\ Apply(i, calls, resolve_en_title_search(calls[i], resp, cache, now))
    /\ UNCHANGED <<now, ticks, agg, xvars>>

LanglinksReturns ==
    /\ \E i \in 1..Len(calls), resp \in LanglinksResponses :
         /\ calls[i].pc = "langlinks"
         /\ Apply(i, calls, english_to_polish_langlinks(calls[i], resp, cache, now))
    /\ UNCHANGED <<now, ticks, agg, xvars>>

PagepropsReturns ==
    /\ \E i \in 1..Len(calls), resp \in PagepropsResponses :
         /\ calls[i].pc = "pageprops"
         /\ Apply(i, calls, english_to_polish_pageprops(calls[i], resp, cache, now))
    /\ UNCHANGED <<now, ticks, agg, xvars>>

WbgetReturns ==
    /\ \E i \in 1..Len(calls), resp \in WbgetResponses :
         /\ calls[i].pc = "wbget"
         /\ Apply(i, calls, english_to_polish_wbget(calls[i], resp, cache, now))
    /\ UNCHANGED <<now, ticks, agg, xvars>>

DikiFetchReturns ==
    /\ \E i \in 1..Len(calls), resp \in DikiResponses :
         /\ calls[i].pc = "fetch"
         /\ Apply(i, calls, diki_lookup_fetch(calls[i], resp, cache, now))
    /\ UNCHANGED <<now, ticks, agg, xvars>>

DikiWakes ==
    /\ \E i \in 1..Len(calls) :
         /\ calls[i].pc = "sleep"
         /\ Apply(i, calls, diki_lookup_wake(calls[i], cache))
    /\ UNCHANGED <<now, ticks, agg, xvars>>

DikiRetryReturns ==
    /\ \E i \in 1..Len(calls), resp \in DikiResponses :
         /\ calls[i].pc = "retry"
         /\ Apply(i, calls, diki_lookup_retry(calls[i], resp, cache, now))
    /\ UNCHANGED <<now, ticks, agg, xvars>>

ProzReturns ==
    /\ \E i \in 1..Len(calls), resp \in ProzResponses :
         /\ calls[i].pc = "proz"
         /\ calls[i].op = "proz_lookup"
         /\ Apply(i, calls, proz_lookup_fetched(calls[i], resp, cache, now))
    /\ UNCHANGED <<now, ticks, agg, xvars>>

ProzPairsReturns ==
    /\ \E i \in 1..Len(calls), resp \in ProzResponses :
         /\ calls[i].pc = "proz"
         /\ calls[i].op = "proz_lookup_pairs"
         /\ Apply(i, calls, proz_lookup_pairs_fetched(calls[i], resp, cache, now))
    /\ UNCHANGED <<now, ticks, agg, xvars>>

Next ==
    \/ Tick
    \/ Call
    \/ SearchReturns
    \/ LanglinksReturns
    \/ PagepropsReturns
    \/ WbgetReturns
    \/ DikiFetchReturns
    \/ DikiWakes
    \/ DikiRetryReturns
    \/ ProzReturns
    \/ ProzPairsReturns

Spec == Init /\ [][Next]_vars

(***************************************************************************)
(* The aggregator (app/main.py): index and api_lookup.                     *)
(***************************************************************************)

\* a or b, for optional strings
OrElse(a, b) == IF Falsy(a) THEN b ELSE a

AggQueries == {None, Some(WikiUrl), Some(Term), Some(Blank)}

NewAgg(route, q) ==
    [ route |-> route, q |-> q, pc |-> "resolving", res |-> 0, wiki |-> 0,
      diki |-> 0, out |-> None ]

\* a request arrives: en_title = await resolve_en_title(q)
Request ==
    /\ Len(agg) < MaxAgg
    /\ \E route \in {"index", "api_lookup"}, q \in AggQueries :
         /\ route = "api_lookup" => q # None
         /\ IF route = "index" /\ Falsy(q)
            THEN /\ agg' = Append(agg, [NewAgg(route, q) EXCEPT !.pc = "responded"])
                 /\ UNCHANGED <<calls, cache>>
            ELSE LET c == Entered(NewCall("resolve_en_title", <<q>>, Len(agg) + 1),
                                  cache, now)
                 IN /\ agg' = Append(agg, [NewAgg(route, q) EXCEPT
                                              !.res = Len(calls) + 1])
                    /\ Apply(Len(calls) + 1, Append(calls, c),
                             first_segment(c, cache, now))
    /\ UNCHANGED <<now, ticks, xvars>>

\* the title is resolved: both lookups are created and handed to
\* asyncio.gather (main.py lines 77-82 and 39-44)
Gather ==
    /\ \E a \in 1..Len(agg) :
         /\ agg[a].pc = "resolving"
         /\ Ended(calls[agg[a].res])
         /\ IF calls[agg[a].res].pc = "raised"
            THEN /\ agg' = [agg EXCEPT ![a].pc = "failed"]
                 /\ UNCHANGED calls
            ELSE LET en_title == calls[agg[a].res].ret
                     term_for_dicts == OrElse(en_title, agg[a].q)
                     wiki_task == NewCall("english_to_polish_wikipedia",
                                          <<en_title>>, a)
                     diki_task == NewCall("diki_lookup", <<term_for_dicts>>, a)
                 IN IF Falsy(en_title)
                    THEN /\ calls' = Append(calls, diki_task)
                         /\ agg' = [agg EXCEPT ![a].pc = "gathering",
                                               ![a].diki = Len(calls) + 1]
                    ELSE /\ calls' = calls \o <<wiki_task, diki_task>>
                         /\ agg' = [agg EXCEPT ![a].pc = "gathering",
                                               ![a].wiki = Len(calls) + 1,
                                               ![a].diki = Len(calls) + 2]
    /\ UNCHANGED <<now, ticks, cache, xvars>>

\* faulty variant: the response is built as soon as the cross-reference
\* lookup has settled, with whatever the dictionary lookup has by then
Respond_first_settled ==
    /\ \E a \in 1..Len(agg) :
         /\ agg[a].pc = "gathering"
         /\ agg[a].wiki # 0 => Ended(calls[agg[a].wiki])
         /\ IF \/ calls[agg[a].diki].pc = "raised"
               \/ agg[a].wiki # 0 /\ calls[agg[a].wiki].pc = "raised"
            THEN agg' = [agg EXCEPT ![a].pc = "failed"]
            ELSE agg' = [agg EXCEPT
                    ![a].pc = "responded",
                    ![a].out = Some(
                        [ query |-> agg[a].q,
                          resolved_en_title |-> calls[agg[a].res].ret,
                          wikipedia |-> IF agg[a].wiki = 0 THEN None
                                        ELSE calls[agg[a].wiki].ret,
                          diki |-> IF calls[agg[a].diki].pc = "done"
                                   THEN calls[agg[a].diki].ret[1] ELSE <<>> ])]
    /\ UNCHANGED <<now, ticks, cache, calls, xvars>>

\* wiki, diki = await asyncio.gather(...) returns: the response is built
Respond ==
    /\ \E a \in 1..Len(agg) :
         /\ agg[a].pc = "gathering"
         /\ agg[a].wiki # 0 => Ended(calls[agg[a].wiki])
         /\ Ended(calls[agg[a].diki])
         /\ IF \/ calls[agg[a].diki].pc = "raised"
               \/ agg[a].wiki # 0 /\ calls[agg[a].wiki].pc = "raised"
            THEN agg' = [agg EXCEPT ![a].pc = "failed"]
            ELSE agg' = [agg EXCEPT
                    ![a].pc = "responded",
                    ![a].out = Some(
                        [ query |-> agg[a].q,
                          resolved_en_title |-> calls[agg[a].res].ret,
                          wikipedia |-> IF agg[a].wiki = 0 THEN None
                                        ELSE calls[agg[a].wiki].ret,
                          diki |-> calls[agg[a].diki].ret[1] ])]
    /\ UNCHANGED <<now, ticks, cache, calls, xvars>>

\* a caller other than the aggregator awaits the cross-reference locator
LocatorRequests == {rq \in Requests : rq[1] = "english_to_polish_wikipedia"}

CallLocator ==
    /\ Cardinality({i \in 1..Len(calls) : calls[i].by = 0}) < MaxCalls - 1
    /\ \E rq \in LocatorRequests :
         LET c == Entered(NewCall(rq[1], rq[2], 0), cache, now)
         IN Apply(Len(calls) + 1, Append(calls, c), first_segment(c, cache, now))
    /\ UNCHANGED <<now, ticks, agg, xvars>>

NextAgg ==
    \/ Request
    \/ Gather
    \/ Begin
    \/ Respond
    \/ CallLocator
    \/ SearchReturns
    \/ LanglinksReturns
    \/ PagepropsReturns
    \/ WbgetReturns
    \/ DikiFetchReturns
    \/ DikiWakes
    \/ DikiRetryReturns

AggSpec == Init /\ [][NextAgg]_vars

(***************************************************************************)
(* The extractors on their own: every parsed document of a bounded pool    *)
(* is handed to the extraction code of diki_lookup (lines 228-253) and of  *)
(* proz_lookup (lines 371-372).                                            *)
(***************************************************************************)

\* the sequences over S of length at most n
SeqsUpTo(S, n) == UNION {[1..k -> S] : k \in 0..n}

\* text nodes: plain, to be trimmed, a capitalised stopword, blank
LinkTexts == {<<"a">>, <<" ","a",",">>, <<"N","p",".">>}
HwTexts == {<<"b">>, <<"a">>, <<"i","t","d",".">>}
ContentTexts == {<<>>, <<"a"," ","(","x",")",";"," ","b">>, <<"b","-","c">>, <<"N","P">>}
LiTexts == {<<"a">>, <<" ","a",";">>, <<"N","p",".">>, <<"b"," ","(","x",")">>, <<" ">>, <<"i","t","p",".">>}
TermTexts == {<<"a">>, <<"N","P">>, <<"b">>}

LiNodes ==
    { [links |-> l, hws |-> h, content |-> c] :
        l \in SeqsUpTo(LinkTexts, 1), h \in SeqsUpTo(HwTexts, 1),
        c \in ContentTexts }

\* parsed pages of the first source: the items of the specific selector,
\* with or without an item only the broad selector finds, or the items of the
\* broad selector alone
DikiDocs ==
    { [ftnm |-> TRUE, hw |-> TRUE, parses |-> TRUE, ol_li |-> n,
       meaning_li |-> m] :
        n \in SeqsUpTo(LiNodes, MaxNodes) \ {<<>>},
        m \in {<<>>, <<[links |-> <<>>, hws |-> <<>>, content |-> <<"z">>]>>} }
    \cup
    { [ftnm |-> FALSE, hw |-> TRUE, parses |-> TRUE, ol_li |-> <<>>,
       meaning_li |-> n] : n \in SeqsUpTo(LiNodes, MaxNodes) }

Containers == { <<>>, <<<<"a">>>>, <<<<"N","p",".">>, <<" ","a",";">>, <<" ">>>>, <<<<"b"," ","(","x",")">>, <<"a">>>> }

\* parsed pages of the second source; a term node inside a container is
\* also a node of class "term"
ProzPages ==
    { [containers |-> c, li_texts |-> l, any_term |-> Flatten(c) \o e,
       blocks |-> <<>>, root |-> NoScopes] :
        c \in SeqsUpTo(Containers, MaxNodes),
        l \in SeqsUpTo(LiTexts, MaxNodes),
        e \in SeqsUpTo(TermTexts, MaxNodes) }

MaxResults == {None, Some(0), Some(1)}

\* parsed pages for proz_lookup_pairs: the regions _find_blocks selects, or
\* the whole page as the one region when it selects none; a region's scopes
\* are none, one with term nodes, or one with only the fallback nodes
\* (and one region with four source-side and six target-side terms)
PairPages ==
    LET EnScopes ==
            { <<>>,
              << [terms |-> <<<<"e">>, <<" ">>>>, alt |-> <<>>] >>,
              << [terms |-> <<>>, alt |-> <<<<"e">>, <<"n","p",".">>>>] >>,
              << [terms |-> <<<<"f">>>>, alt |-> <<>>],
                 [terms |-> <<<<"e">>>>, alt |-> <<<<"g">>>>] >> }
        PlScopes ==
            { <<>>,
              << [terms |-> <<<<"p">>, <<"p">>>>, alt |-> <<>>] >>,
              << [terms |-> <<>>, alt |-> <<<<"(","x",")">>, <<"q"," ","(","y",")">>>>] >>,
              << [terms |-> <<<<"I","t","d",".">>, <<"p">>>>, alt |-> <<>>] >> }
        Regions == { [en |-> e, pl |-> p] : e \in EnScopes, p \in PlScopes }
        ManyTerms ==
            [ en |-> << [terms |-> <<<<"a">>, <<"b">>, <<"c">>, <<"d">>>>,
                         alt |-> <<>>] >>,
              pl |-> << [terms |-> <<<<"p">>, <<"q">>, <<"r">>>>, alt |-> <<>>],
                        [terms |-> <<<<"s">>, <<"u">>, <<"v">>>>, alt |-> <<>>] >> ]
        PairContainers ==
            { <<>>, << <<<<"p">>, <<"q">>>> >>, << <<<<" ">>, <<"p">>, <<"N","p",".">>, <<"p">>>> >> }
    IN  { [containers |-> c, li_texts |-> <<>>, any_term |-> Flatten(c),
           blocks |-> b, root |-> NoScopes] :
            c \in PairContainers, b \in SeqsUpTo(Regions, MaxNodes) \ {<<>>} }
        \cup
        { [containers |-> c, li_texts |-> <<>>, any_term |-> Flatten(c),
           blocks |-> <<>>, root |-> r] : c \in PairContainers, r \in Regions }
        \cup
        { [containers |-> <<>>, li_texts |-> <<>>, any_term |-> <<>>,
           blocks |-> b, root |-> NoScopes] :
            b \in { <<ManyTerms>> } \cup { <<r, ManyTerms>> : r \in Regions } }

\* english_term_or_url of proz_lookup_pairs: a term, a blank, a stopword,
\* a results URL with a term, one without, one whose term is blank
PairQueries ==
    { Some(Term), Some(Blank), Some(<<" ","n","p"," ">>), Some(ProzUrl),
      Some(<<"h","t","t","p","s",":","/","/","p","/","?","e","s","=","1">>), Some(<<"h","t","t","p","s",":","/","/","p","/","?","t","e","r","m","=","&","e","s","=","1">>) }

InitExtract ==
    /\ now = 0
    /\ ticks = 0
    /\ cache = <<>>
    /\ calls = <<>>
    /\ agg = <<>>
    /\ doc \in {[kind |-> "diki", page |-> d, q |-> None, max |-> None] :
                    d \in DikiDocs}
               \cup {[kind |-> "proz", page |-> d, q |-> None, max |-> m] :
                        d \in ProzPages, m \in MaxResults}
    /\ terms = <<>>
    /\ xpc = "parsed"
    /\ dsl = DSLParser

\* diki_lookup, lines 228-253, on the parsed page
ExtractDiki ==
    /\ xpc = "parsed"
    /\ doc.kind = "diki"
    /\ terms' = diki_extract(doc.page)
    /\ xpc' = "diki"
    /\ UNCHANGED <<now, ticks, cache, calls, agg, doc, dsl>>

\* proz_lookup, lines 371-372, on the parsed page
ExtractProz ==
    /\ xpc = "parsed"
    /\ doc.kind = "proz"
    /\ terms' = truncate(extract_polish_terms(doc.page), doc.max)
    /\ xpc' = "proz"
    /\ UNCHANGED <<now, ticks, cache, calls, agg, doc, dsl>>

\* proz_lookup_pairs, lines 386-405, on the parsed page
ExtractPairs ==
    /\ xpc = "parsed"
    /\ doc.kind = "pairs"
    /\ LET s == Strip(OrEmpty(doc.q), Whitespace)
       IN /\ ~(is_http(s) /\ urlparse_raises(s))
          /\ terms' = truncate(pairs_or_fallback(doc.page, pairs_query_term(s)),
                               doc.max)
    /\ xpc' = "pairs"
    /\ UNCHANGED <<now, ticks, cache, calls, agg, doc, dsl>>

NextExtract ==
    \/ ExtractDiki
    \/ ExtractProz

ExtractSpec == InitExtract /\ [][NextExtract]_vars

\* the pair extractor on its own: every page, query and limit of the pools
InitPairs ==
    /\ now = 0
    /\ ticks = 0
    /\ cache = <<>>
    /\ calls = <<>>
    /\ agg = <<>>
    /\ doc \in {[kind |-> "pairs", page |-> d, q |-> q, max |-> m] :
                    d \in PairPages, q \in PairQueries,
                    m \in {None, Some(0), Some(2)}}
    /\ terms = <<>>
    /\ xpc = "parsed"
    /\ dsl = DSLParser

PairsSpec == InitPairs /\ [][ExtractPairs]_vars

(***************************************************************************)
(* A caller that changes the value it received.  The operations return the *)
(* very object they stored (`_cache_set_key(key, out); return out`), so a   *)
(* change the caller makes to a list (del r[0]) or to a mapping             *)
(* (r["pl_title"] = "x") is a change of the entry's data.  The action is    *)
(* taken for the only writer of a key while its write is still the entry.  *)
(***************************************************************************)
Mutate ==
    /\ \E i \in 1..Len(calls) :
         LET c == calls[i]
         IN /\ c.pc = "done"
            /\ c.op # "resolve_en_title"
            /\ c.wrote # None
            /\ c.ret # None
            /\ c.key \in DOMAIN cache
            /\ cache[c.key] = c.wrote[1]
            /\ \A j \in 1..Len(calls) :
                 (j # i /\ calls[j].key = c.key) => calls[j].wrote = None
            /\ IF c.op = "english_to_polish_wikipedia"
               THEN cache' = [cache EXCEPT
                        ![c.key].data = Some([c.ret[1] EXCEPT !.pl_title = <<"x">>])]
               ELSE /\ c.ret[1] # <<>>
                    /\ cache' = [cache EXCEPT ![c.key].data = Some(Tail(c.ret[1]))]
    /\ UNCHANGED <<now, ticks, calls, agg, xvars>>

AliasSpec == Init /\ [][Next \/ Mutate]_vars

(***************************************************************************)
(* The dictionary file parser (app/dsl_parser.py).  An entry is a record   *)
(* of its headword, its main translation and its variants; `entries` and   *)
(* `index` are functions on the stored keys.  The entry being filled is    *)
(* the object stored last under its key, so it is named by that key.       *)
(***************************************************************************)
MaxLines == 4

\* str.split(): the runs of characters between whitespace
RECURSIVE split_words(_)
split_words(s) ==
    IF LStrip(s, Whitespace) = <<>> THEN <<>>
    ELSE <<TakeUntil(LStrip(s, Whitespace), Whitespace)>>
            \o split_words(Drop(LStrip(s, Whitespace),
                                Len(TakeUntil(LStrip(s, Whitespace), Whitespace))))

\* ' '.join(words)
RECURSIVE join_words(_)
join_words(words) ==
    IF words = <<>> THEN <<>>
    ELSE IF Len(words) = 1 THEN words[1]
    ELSE words[1] \o <<" ">> \o join_words(Tail(words))

\* re.match(r'\[b\]([^\]]+)\[/b]\s+(.+)', stripped): the two groups, or None.
\* The first group holds no "]", so the first "]" after "[b]" is the one
\* that closes "[/b]".
variant_match(stripped) ==
    LET rest == Drop(stripped, 3)
        close == IndexFrom(rest, "]", 1)
        after == Drop(rest, close)
    IN IF /\ StartsWith(stripped, <<"[","b","]">>)
          /\ close >= 5
          /\ SubSeq(rest, close - 3, close - 1) = <<"[","/","b">>
          /\ after # <<>>
          /\ Head(after) \in Whitespace
          /\ LStrip(after, Whitespace) # <<>>
       THEN Some([source |-> SubSeq(rest, 1, close - 4),
                  target |-> LStrip(after, Whitespace)])
       ELSE None

\* lines 106-143: split_idx, counted from 0 as in the code, or None
split_index(words) ==
    LET n == Len(words)
        EndsWith(w, e) ==
            Len(w) >= Len(e) /\ SubSeq(w, Len(w) - Len(e) + 1, Len(w)) = e
        First(S) == IF S = {} THEN None
                    ELSE Some(CHOOSE k \in S : \A j \in S : k <= j)
        polish_endings == { <<"o","w","y">>, <<"n","y">>, <<"i","c","z","n","y">>, <<"y","c","z","n","y">>, <<"n","i","c","z","y">>, <<"c","z","y">>, <<"s","k","i">>, <<"c","k","i">>, <<"t","y","c","z","n","y">> }
        english_prefixes == { <<"n","o","n","-">>, <<"a","n","t","i","-">>, <<"p","r","e","-">>, <<"p","o","s","t","-">>, <<"s","u","b","-">>, <<"s","u","p","e","r","-">>, <<"s","e","m","i","-">> }
        english_words == { <<"l","y","m","p","h","o","m","a">>,
              <<"d","i","s","e","a","s","e">>,
              <<"s","y","n","d","r","o","m","e">>,
              <<"c","e","l","l">>,
              <<"f","o","l","l","i","c","u","l","a","r">>,
              <<"b","e","n","i","g","n">>,
              <<"m","a","l","i","g","n","a","n","t">>,
              <<"g","i","a","n","t">>,
              <<"p","u","l","m","o","n","a","r","y">>,
              <<"c","u","t","a","n","e","o","u","s">> }
        apostrophe ==
            First({k \in 0..(n - 1) :
                     \E c \in 1..Len(words[k + 1]) :
                        words[k + 1][c] = "'"})
        ending ==
            First({k \in 0..(n - 2) :
                     \E e \in polish_endings : EndsWith(words[k + 1], e)})
        prefix ==
            First({k \in 0..(n - 1) :
                     \E e \in english_prefixes : StartsWith(Lower(words[k + 1]), e)})
        english ==
            First({k \in 0..(n - 1) : Lower(words[k + 1]) \in english_words})
    IN IF apostrophe # None THEN apostrophe
       ELSE IF ending # None THEN Some(ending[1] + 1)
       ELSE IF prefix # None THEN prefix
       ELSE IF english # None THEN english
       ELSE IF EndsWith(words[1], <<".">>)
            THEN Some(IF n - 1 < 2 THEN n - 1 ELSE 2)
       ELSE None

\* faulty variant: the index keeps the headword as it was written
add_to_index_keeps_case(index, term, headword) ==
    IF Strip(Lower(term), Whitespace) = <<>> THEN index
    ELSE [k \in DOMAIN index \cup {Strip(Lower(term), Whitespace)} |->
            IF k = Strip(Lower(term), Whitespace) THEN headword ELSE index[k]]

\* DSLParser._add_to_index
add_to_index(index, term, headword) ==
    IF Strip(Lower(term), Whitespace) = <<>> THEN index
    ELSE [k \in DOMAIN index \cup {Strip(Lower(term), Whitespace)} |->
            IF k = Strip(Lower(term), Whitespace) THEN Lower(headword) ELSE index[k]]

\* one turn of the loop of parse_file: the parser after the line
parse_line(p, line) ==
    LET headword == Strip(line, Whitespace)
        stripped == Strip(line, Whitespace)
        m == variant_match(stripped)
        words == split_words(stripped)
        split_idx == split_index(words)
        \* current_entry.add_variant(source, target) and
        \* self._add_to_index(source, current_entry.headword)
        with_variant(source, target) ==
            [p EXCEPT
               !.entries[p.current[1]].variants =
                  IF Strip(source, Whitespace) # <<>> /\ Strip(target, Whitespace) # <<>>
                  THEN Append(@, <<Strip(source, Whitespace), Strip(target, Whitespace)>>)
                  ELSE @,
               !.index = add_to_index(@, source,
                                      p.entries[p.current[1]].headword)]
    IN IF StartsWith(line, <<"#">>) THEN p
       ELSE IF line # <<>> /\ line[1] \notin {" ", "\t", "\n", "\r"}
       THEN IF headword # <<>>
            THEN [p EXCEPT
                    !.entries =
                       [k \in DOMAIN p.entries \cup {Lower(headword)} |->
                          IF k = Lower(headword)
                          THEN [headword |-> Strip(headword, Whitespace),
                                main_translation |-> <<>>, variants |-> <<>>]
                          ELSE p.entries[k]],
                    !.index = add_to_index(@, headword, headword),
                    !.current = Some(Lower(headword))]
            ELSE p
       ELSE IF p.current = None THEN p
       ELSE IF stripped = <<>> THEN p
       ELSE IF m # None
       THEN with_variant(Strip(m[1].source, Whitespace), Strip(m[1].target, Whitespace))
       ELSE IF p.entries[p.current[1]].main_translation = <<>>
       THEN [p EXCEPT !.entries[p.current[1]].main_translation =
                          Strip(stripped, Whitespace)]
       ELSE IF /\ Len(words) >= 2
               /\ split_idx # None
               /\ split_idx[1] # 0
               /\ split_idx[1] < Len(words)
       THEN with_variant(join_words(SubSeq(words, 1, split_idx[1])),
                         join_words(SubSeq(words, split_idx[1] + 1, Len(words))))
       ELSE p

\* DSLParser.lookup
lookup(p, term) ==
    LET normalized == Strip(Lower(term), Whitespace)
        headword == IF normalized \in DOMAIN p.index
                    THEN Some(p.index[normalized]) ELSE None
    IN IF headword # None /\ headword[1] # <<>>
       THEN IF headword[1] \in DOMAIN p.entries
            THEN Some(p.entries[headword[1]]) ELSE None
       ELSE None

\* lines of a dictionary file: headwords (one written twice, in two letter
\* cases), a metadata line, an empty line, a main translation, tagged
\* variants (one spelled like a headword, one blank), untagged variants
DslLines ==
    { <<"a","\n">>,
      <<"A"," ","\n">>,
      <<"b">>,
      <<"#","a","\n">>,
      <<"\n">>,
      <<" ","m","\n">>,
      <<"\t","[","b","]","X","[","/","b","]"," ","y","\n">>,
      <<" ","[","b","]","b","[","/","b","]"," ","y","\n">>,
      <<" ","[","b","]"," ","[","/","b","]"," ","y","\n">>,
      <<" ","c","."," ","d"," ","e","\n">>,
      <<" ","d"," ","x","'","s","\n">> }

\* parse_file reads the next line of the file
ParseLine ==
    /\ dsl.read < MaxLines
    /\ \E line \in DslLines :
         dsl' = [parse_line(dsl, line) EXCEPT !.read = @ + 1]
    /\ UNCHANGED <<now, ticks, cache, calls, agg, doc, terms, xpc>>

DslSpec == Init /\ [][ParseLine]_vars

(***************************************************************************)
(* Properties.                                                             *)
(***************************************************************************)
CallIds == 1..Len(calls)

Started(c) == c.pc # "pending"

\* the entry the call found for its key was older than the TTL
SawStale(c) == c.seen # None /\ c.start - c.seen[1].ts > CACHE_TTL

\* the entry the call found for its key was within the TTL
SawFresh(c) == c.seen # None /\ c.start - c.seen[1].ts <= CACHE_TTL

\* the call's first argument, trimmed
TrimmedArg(c) == Strip(OrEmpty(c.args[1]), Whitespace)

\* a call of this operation with these arguments issues a remote request
\* when the store is empty
RemoteOnMiss(c) ==
    first_segment(NewCall(c.op, c.args, 0), <<>>, 0).call.reqs = 1

LastOutcome(c) == c.trail[Len(c.trail)].out

\* the value an operation returns when it has no result
NoResult(op) ==
    IF op \in {"resolve_en_title", "english_to_polish_wikipedia"}
    THEN None ELSE Some(<<>>)

\* C1: of two calls of resolve_en_title with the same query,
\* the second starting after the first returned and less than the TTL after
\* it started, the second issues no remote request and returns the first's
\* value, whatever the outcome of the first.
C1_ResolveIdempotent ==
    \A i \in CallIds, j \in CallIds :
        ( /\ calls[i].op = "resolve_en_title"
          /\ calls[j].op = "resolve_en_title"
          /\ calls[i].args = calls[j].args
          /\ i \in calls[j].prior
          /\ calls[i].pc = "done"
          /\ Started(calls[j])
          /\ calls[j].start - calls[i].start < CACHE_TTL )
        => /\ calls[j].reqs = 0
           /\ calls[j].pc = "done"
           /\ calls[j].ret = calls[i].ret

\* C2: a call whose read finds an entry older than the TTL is not served
\* from it: the entry is gone from the store, the call issues the remote
\* request a call on an empty store issues, and when it returns it has
\* written an entry stamped no earlier than its start that holds its result;
\* and a call that is served from the cache found an entry within the TTL
\* and returns that entry's data.
C2_StaleEntryNeverReturned ==
    \A i \in CallIds :
        LET c == calls[i]
        IN /\ (Started(c) /\ SawStale(c)) =>
                /\ ~c.hit
                /\ c.key \in DOMAIN cache => cache[c.key].ts >= c.start
                /\ RemoteOnMiss(c) => c.reqs >= 1
                /\ c.pc = "done" =>
                     /\ c.wrote # None
                     /\ c.wrote[1].ts >= c.start
                     /\ c.wrote[1].data = c.ret
           /\ c.hit => /\ SawFresh(c)
                       /\ c.ret = c.seen[1].data

C2_Witness ==
    \E i \in CallIds :
        /\ SawStale(calls[i])
        /\ calls[i].pc = "done"
        /\ calls[i].reqs >= 1
        /\ calls[i].wrote # None
        /\ calls[i].wrote[1].ts = now
        /\ cache[calls[i].key] = calls[i].wrote[1]

\* C3: of two calls with the same key that both perform a
\* remote computation, one starts more than a TTL after the other.
C3_OneComputationPerWindow ==
    \A i \in CallIds, j \in CallIds :
        ( /\ i # j
          /\ calls[i].key = calls[j].key
          /\ calls[i].reqs >= 1
          /\ calls[j].reqs >= 1
          /\ calls[i].start <= calls[j].start )
        => calls[j].start - calls[i].start > CACHE_TTL

\* C4: a diki_lookup or proz_lookup call whose fetch fails returns the
\* empty list and writes it to the store; a later identical call that
\* starts within the TTL of that write is served from the store without a
\* fetch, and returns the empty list when the entry is still the one the
\* failed call wrote.
C4_TransportFailureCached ==
    \A i \in CallIds :
        LET c == calls[i]
        IN ( /\ c.op \in {"diki_lookup", "proz_lookup"}
             /\ Len(c.trail) = 1
             /\ c.trail[1].out = "error" )
           => /\ c.pc = "done"
              /\ c.ret = Some(<<>>)
              /\ c.wrote # None
              /\ c.wrote[1].data = Some(<<>>)
              /\ \A j \in CallIds :
                   ( /\ calls[j].key = c.key
                     /\ i \in calls[j].prior
                     /\ Started(calls[j])
                     /\ calls[j].start - c.wrote[1].ts <= CACHE_TTL )
                   => /\ calls[j].hit
                      /\ calls[j].reqs = 0
                      /\ calls[j].seen = c.wrote => calls[j].ret = Some(<<>>)

C4_Witness ==
    \E i \in CallIds, j \in CallIds :
        /\ calls[i].op = "proz_lookup"
        /\ Len(calls[i].trail) = 1
        /\ calls[i].trail[1].out = "error"
        /\ calls[j].key = calls[i].key
        /\ i \in calls[j].prior
        /\ calls[j].hit
        /\ calls[j].reqs = 0
        /\ calls[j].ret = Some(<<>>)

\* C5: no failure of a remote step (transport failure, malformed body,
\* missing structure) ends a call with an exception: a call ends raised
\* only on an argument urlparse rejects; a call whose last remote step
\* failed, and a diki_lookup whose body does not parse, return the
\* operation's no-result value.
C5_NoRemoteFailurePropagates ==
    \A i \in CallIds :
        LET c == calls[i]
        IN /\ c.pc = "raised" =>
                /\ c.op = "proz_lookup_pairs"
                /\ urlparse_raises(TrimmedArg(c))
           /\ (c.pc = "done" /\ c.trail # <<>> /\ LastOutcome(c) = "error")
                => c.ret = NoResult(c.op)
           /\ (c.pc = "done" /\ c.parsed /\ c.op = "diki_lookup"
                 /\ ~c.loc[1].parses)
                => c.ret = NoResult(c.op)

C5_Witness ==
    \E i \in CallIds, j \in CallIds :
        /\ calls[i].op = "english_to_polish_wikipedia"
        /\ calls[i].pc = "done"
        /\ Len(calls[i].trail) = 3
        /\ calls[i].trail[1].out = "error"
        /\ LastOutcome(calls[i]) = "error"
        /\ calls[i].ret = None
        /\ calls[j].op = "proz_lookup_pairs"
        /\ calls[j].pc = "done"
        /\ LastOutcome(calls[j]) = "error"
        /\ calls[j].ret = Some(<<>>)

\* C6: a call of resolve_en_title whose trimmed argument matches the
\* reference-page URL pattern issues no remote request and returns the
\* decoded path; for https://en.wikipedia.org/wiki/a_%28b%29#c that is
\* "a (b)".
C6_UrlDecodedWithoutRemote ==
    \A i \in CallIds :
        LET c == calls[i]
            m == wiki_url_match(TrimmedArg(c))
        IN (c.op = "resolve_en_title" /\ Started(c) /\ m # None) =>
              /\ c.reqs = 0
              /\ c.pc = "done"
              /\ ~(\E k \in 1..Len(c.ret[1]) : c.ret[1][k] = "_")
              /\ Len(c.ret[1]) <= Len(m[1])
              /\ c.args[1] = Some(WikiUrl) => c.ret = Some(<<"a"," ","(","b",")">>)

C6_Witness ==
    \E i \in CallIds, j \in CallIds :
        /\ i # j
        /\ calls[i].args = <<Some(WikiUrl)>>
        /\ calls[j].args = <<Some(WikiUrl)>>
        /\ calls[i].op = "resolve_en_title"
        /\ calls[j].op = "resolve_en_title"
        /\ calls[i].wrote # None
        /\ calls[j].hit
        /\ calls[j].ret = Some(<<"a"," ","(","b",")">>)
        /\ calls[j].reqs = 0

\* C8: a call of english_to_polish_wikipedia that issues a request issues
\* the inter-language-link request first; a link ends the call with the
\* mapping built from it and no further request; an exception or no link
\* is followed by the identifier request, and a found identifier by the
\* sitelink request; a call that computed None saw the direct step yield
\* nothing and the linked-data step fail.
C8_DirectStepThenLinkedData ==
    \A i \in CallIds :
        LET c == calls[i]
        IN (c.op = "english_to_polish_wikipedia" /\ Started(c)) =>
            /\ c.reqs >= 1 =>
                 \/ c.pc = "langlinks" /\ c.trail = <<>> /\ c.reqs = 1
                 \/ c.trail # <<>> /\ c.trail[1].step = "langlinks"
            /\ (c.trail # <<>> /\ c.trail[1].out = "ok") =>
                 /\ c.pc = "done"
                 /\ c.reqs = 1
                 /\ Len(c.trail) = 1
                 /\ \E link \in {PlLink, BlankLink} :
                      c.ret = Some([en_title |-> c.args[1][1],
                                    pl_title |-> link.title,
                                    pl_url |-> link.url])
            /\ (c.trail # <<>> /\ c.trail[1].out \in {"error", "nolink"}) =>
                 /\ c.reqs >= 2
                 /\ \/ c.pc = "pageprops" /\ Len(c.trail) = 1
                    \/ Len(c.trail) >= 2 /\ c.trail[2].step = "pageprops"
            /\ (Len(c.trail) >= 2 /\ c.trail[2].out = "ok") =>
                 /\ c.reqs = 3
                 /\ \/ c.pc = "wbget" /\ Len(c.trail) = 2
                    \/ Len(c.trail) = 3 /\ c.trail[3].step = "wbget"
            /\ (c.pc = "done" /\ ~c.hit /\ ~Falsy(c.args[1]) /\ c.ret = None) =>
                 /\ Len(c.trail) >= 2
                 /\ c.trail[1].out \in {"error", "nolink"}
                 /\ LastOutcome(c) = "error"
            /\ (c.pc = "done" /\ c.trail # <<>> /\ LastOutcome(c) = "ok") =>
                 c.ret # None

C8_Witness ==
    \E i \in CallIds :
        /\ calls[i].op = "english_to_polish_wikipedia"
        /\ calls[i].pc = "done"
        /\ Len(calls[i].trail) = 3
        /\ calls[i].trail[1].out = "error"
        /\ calls[i].trail[3].out = "ok"
        /\ calls[i].ret # None

\* C9: a diki_lookup call whose first response lacks both
\* markers makes one retry and, whatever the retry's outcome, goes on to
\* parse the text it has.
C9_RetryThenAlwaysParse ==
    \A i \in CallIds :
        LET c == calls[i]
        IN ( /\ c.op = "diki_lookup"
             /\ c.trail # <<>>
             /\ c.trail[1].out = "bare" ) =>
            /\ c.reqs <= 2
            /\ Ended(c) => (c.reqs = 2 /\ Len(c.trail) = 2 /\ c.parsed)

\* C7: a resolve_en_title call whose search yields no hit returns None; an
\* english_to_polish_wikipedia call with a None or empty title returns None
\* and issues no remote request; an aggregator whose resolved title is None
\* or empty starts no english_to_polish_wikipedia call and reports no
\* cross-reference.
C7_AbsentTitleNoRemote ==
    /\ \A i \in CallIds :
         LET c == calls[i]
         IN /\ ( /\ c.op = "resolve_en_title"
                 /\ c.trail # <<>>
                 /\ LastOutcome(c) = "error" )
               => (c.pc = "done" /\ c.ret = None)
            /\ ( /\ c.op = "english_to_polish_wikipedia"
                 /\ Started(c)
                 /\ Falsy(c.args[1]) )
               => (c.pc = "done" /\ c.ret = None /\ c.reqs = 0 /\ c.trail = <<>>)
    /\ \A a \in 1..Len(agg) :
         ( /\ agg[a].res # 0
           /\ agg[a].pc \in {"gathering", "responded"}
           /\ Falsy(calls[agg[a].res].ret) )
         => /\ agg[a].wiki = 0
            /\ ~(\E i \in CallIds :
                    /\ calls[i].by = a
                    /\ calls[i].op = "english_to_polish_wikipedia")
            /\ agg[a].pc = "responded" => agg[a].out[1].wikipedia = None

C7_Witness ==
    \E a \in 1..Len(agg), i \in CallIds :
        /\ agg[a].pc = "responded"
        /\ agg[a].q = Some(Term)
        /\ calls[agg[a].res].trail = <<[step |-> "search", out |-> "error"]>>
        /\ agg[a].wiki = 0
        /\ agg[a].out[1].resolved_en_title = None
        /\ agg[a].out[1].wikipedia = None
        /\ calls[i].by = 0
        /\ calls[i].op = "english_to_polish_wikipedia"
        /\ Falsy(calls[i].args[1])
        /\ calls[i].pc = "done"
        /\ calls[i].reqs = 0

\* the cleaned candidate strings of a document, in the order the extractor
\* comes upon them
Discovered ==
    IF doc.kind = "diki"
    THEN MapClean(Flatten([i \in 1..Len(diki_li_nodes(doc.page)) |->
                              diki_li_values(diki_li_nodes(doc.page)[i])]))
    ELSE polish_stage_terms(doc.page)

\* the position at which v is first discovered
FirstFound(v) ==
    CHOOSE i \in 1..Len(Discovered) :
        Discovered[i] = v /\ \A k \in 1..(i - 1) : Discovered[k] # v

\* C10: the list diki_lookup or proz_lookup extracts from a page holds no
\* string twice, no empty string and no stopword in any letter case, each
\* of its strings was discovered on the page, and the strings stand in the
\* order in which they were first discovered.
C10_TermListWellFormed ==
    xpc \in {"diki", "proz"} =>
        /\ \A i \in 1..Len(terms), j \in 1..Len(terms) :
             i # j => terms[i] # terms[j]
        /\ \A i \in 1..Len(terms) :
             /\ terms[i] # <<>>
             /\ Lower(terms[i]) \notin Stopwords
             /\ \E k \in 1..Len(Discovered) : Discovered[k] = terms[i]
        /\ \A i \in 1..Len(terms), j \in 1..Len(terms) :
             i < j => FirstFound(terms[i]) < FirstFound(terms[j])

C10_Witness ==
    /\ xpc = "proz"
    /\ Len(terms) = 2
    /\ \E k \in 1..Len(Discovered) :
         Discovered[k] # <<"n","p",".">> /\ Lower(Discovered[k]) \in Stopwords
    /\ \E k \in 1..Len(Discovered) : Discovered[k] = <<>>
    /\ \E k \in 1..Len(Discovered), m \in 1..Len(Discovered) :
         k # m /\ Discovered[k] = Discovered[m] /\ Discovered[k] = terms[1]

\* the trimmed input of the pair lookup under way
PairInput == Strip(OrEmpty(doc.q), Whitespace)

\* the list is the first elements of full, all of them when max is no limit
PrefixOf(list, full, max) ==
    /\ Len(list) <= Len(full)
    /\ \A i \in 1..Len(list) : list[i] = full[i]
    /\ IF max # None /\ max[1] > 0
       THEN Len(list) = (IF Len(full) < max[1] THEN Len(full) ELSE max[1])
       ELSE Len(list) = Len(full)

\* C11: no pair proz_lookup_pairs returns has an empty string or a
\* stopword as its source term or as its target term, from region
\* extraction or from the query-term fallback, for every query and page.
C11_PairsHaveNoFiller ==
    xpc = "pairs" =>
        \A i \in 1..Len(terms) :
            /\ terms[i][1] # <<>>
            /\ Lower(terms[i][1]) \notin Stopwords
            /\ terms[i][2] # <<>>
            /\ Lower(terms[i][2]) \notin Stopwords

\* C12: the list proz_lookup_pairs returns has at most max_pairs elements
\* when max_pairs > 0 and holds no pair twice, on the region path and on
\* the fallback path.
C12_PairsBoundedAndDistinct ==
    xpc = "pairs" =>
        /\ (doc.max # None /\ doc.max[1] > 0) => Len(terms) <= doc.max[1]
        /\ \A i \in 1..Len(terms), j \in 1..Len(terms) :
             i # j => terms[i] # terms[j]

C12_Witness ==
    /\ xpc = "pairs"
    /\ doc.max = Some(2)
    /\ Len(terms) = 2
    /\ Len(all_block_pairs(find_blocks(doc.page))) > 2
    /\ \E i \in 1..Len(all_block_pairs(find_blocks(doc.page))) :
         \E j \in 1..Len(all_block_pairs(find_blocks(doc.page))) :
            /\ i # j
            /\ all_block_pairs(find_blocks(doc.page))[i]
                 = all_block_pairs(find_blocks(doc.page))[j]
            /\ all_block_pairs(find_blocks(doc.page))[i] = terms[1]

\* C13: with max_results > 0 proz_lookup returns the first max_results
\* elements, in order, of the list it returns unlimited (all of them when
\* there are fewer); with max_results zero or None it returns that whole
\* list.
C13_TruncationIsPrefix ==
    xpc = "proz" =>
        PrefixOf(terms, extract_polish_terms(doc.page), doc.max)

C13_Witness ==
    /\ xpc = "proz"
    /\ doc.max = Some(1)
    /\ Len(extract_polish_terms(doc.page)) = 2
    /\ terms = <<extract_polish_terms(doc.page)[1]>>

\* the query term the fallback pairs with: the trimmed input, for the
\* results URL with term=t+u the decoded value "t u", and for a URL without
\* a term value the URL itself
FallbackTerm ==
    IF doc.q = Some(ProzUrl) THEN <<"t"," ","u">> ELSE PairInput

\* C20: when region extraction yields no pair, proz_lookup_pairs returns,
\* up to truncation, one pair (query_term, t) for every term t of plain
\* term extraction, in the same order; when region extraction yields a
\* pair, it returns the region pairs and the fallback adds nothing.
C20_FallbackPairsQueryTerm ==
    xpc = "pairs" =>
        LET region == extract_en_pl_pairs(doc.page)
            plain == extract_polish_terms(doc.page)
        IN IF region = <<>>
           THEN PrefixOf(terms,
                         [i \in 1..Len(plain) |-> <<FallbackTerm, plain[i]>>],
                         doc.max)
           ELSE PrefixOf(terms, region, doc.max)

C20_Witness ==
    /\ xpc = "pairs"
    /\ doc.q = Some(ProzUrl)
    /\ doc.max = None
    /\ extract_en_pl_pairs(doc.page) = <<>>
    /\ doc.page.blocks # <<>>
    /\ terms = << << <<"t"," ","u">>, <<"p">> >>, << <<"t"," ","u">>, <<"q">> >> >>

\* the usable (non-empty, non-stopword) cleaned strings of a list of texts
Usable(texts) == SelectSeq(MapClean(texts), usable_term)

\* the terms the first yielding strategy gives for a list item: its link
\* texts, else its headword texts, else the text before the first separator
FirstYield(li) ==
    IF Usable(li.links) # <<>> THEN Usable(li.links)
    ELSE IF Usable(li.hws) # <<>> THEN Usable(li.hws)
    ELSE Usable(<<BeforeSeparator(strip_parentheticals(li.content))>>)

\* C18: every term diki_lookup returns comes, for some list item, from the
\* highest-priority strategy that yields a term for that item: a lower
\* strategy contributes from an item only when every higher one yielded
\* none for it.
C18_StrategiesShortCircuit ==
    xpc = "diki" =>
        \A i \in 1..Len(terms) :
            \E n \in 1..Len(diki_li_nodes(doc.page)) :
                \E k \in 1..Len(FirstYield(diki_li_nodes(doc.page)[n])) :
                    FirstYield(diki_li_nodes(doc.page)[n])[k] = terms[i]

\* the cleaned texts of each stage of _extract_polish_terms
StageTexts ==
    << MapClean(Flatten(doc.page.containers)),
       MapCleanStripped(doc.page.li_texts),
       MapClean(doc.page.any_term) >>

\* the first stage that selects any text, 0 when none does
FirstStage ==
    IF StageTexts[1] # <<>> THEN 1
    ELSE IF StageTexts[2] # <<>> THEN 2
    ELSE IF StageTexts[3] # <<>> THEN 3 ELSE 0

\* C19: the list _extract_polish_terms returns is empty only if no stage
\* yields a usable (non-empty, non-stopword) term.
C19_BroadenUntilUsable ==
    (xpc = "proz" /\ terms = <<>>) =>
        \A st \in 1..3 : SelectSeq(StageTexts[st], usable_term) = <<>>

\* C19 (amended): in diki_lookup the broad list-item selector is used only
\* if the specific one finds no node; in _extract_polish_terms a later
\* stage runs exactly when every earlier stage selected no text at all, the
\* empty strings and stopwords are dropped after the stage is chosen, and
\* the result is empty exactly when the first stage that selects any text
\* yields no usable term.
C19_BroadenWhenNothingSelected ==
    /\ xpc = "diki" =>
         LET nodes == IF doc.page.ol_li # <<>> THEN doc.page.ol_li
                      ELSE doc.page.meaning_li
         IN \A i \in 1..Len(terms) :
              \E n \in 1..Len(nodes) :
                 \E k \in 1..Len(diki_li_values(nodes[n])) :
                    clean_text(diki_li_values(nodes[n])[k]) = terms[i]
    /\ xpc = "proz" =>
         /\ \A i \in 1..Len(terms) :
              /\ FirstStage # 0
              /\ \E k \in 1..Len(StageTexts[FirstStage]) :
                    StageTexts[FirstStage][k] = terms[i]
         /\ terms = <<>> <=>
              (FirstStage = 0
                 \/ SelectSeq(StageTexts[FirstStage], usable_term) = <<>>)

C19_Witness ==
    /\ xpc = "proz"
    /\ FirstStage = 2
    /\ SelectSeq(StageTexts[2], usable_term) = <<>>
    /\ SelectSeq(StageTexts[3], usable_term) # <<>>
    /\ terms = <<>>

\* C17: every mapping english_to_polish_wikipedia returns, from the direct
\* step or from the linked-data step, has a non-empty pl_title and a
\* non-empty pl_url, whatever the remote responses.
C17_CrossReferenceFieldsNonEmpty ==
    \A i \in CallIds :
        ( /\ calls[i].op = "english_to_polish_wikipedia"
          /\ calls[i].pc = "done"
          /\ calls[i].ret # None )
        => /\ calls[i].ret[1].pl_title # <<>>
           /\ calls[i].ret[1].pl_url # <<>>

\* two calls with the same key, each started before the other ended, that
\* both missed the cache and both returned
Raced(i, j) ==
    /\ i # j
    /\ calls[i].key = calls[j].key
    /\ i \notin calls[j].prior
    /\ j \notin calls[i].prior
    /\ calls[i].pc = "done"
    /\ calls[j].pc = "done"
    /\ ~calls[i].hit
    /\ ~calls[j].hit
    /\ calls[i].reqs >= 1
    /\ calls[j].reqs >= 1

SameResponses(i, k) ==
    /\ calls[k].trail = calls[i].trail
    /\ calls[k].loc = calls[i].loc

Gathered(a) ==
    {i \in CallIds : calls[i].by = a /\ i # agg[a].res}

\* C15: in the aggregator, title resolution has completed before the
\* cross-reference lookup and the dictionary lookup start (neither exists
\* while the title is being resolved, and each enters its body after the
\* resolution ended), and the response is produced only after both have
\* settled and carries their results, never a partial set.
C15_ResolveThenJoinBoth ==
    \A a \in 1..Len(agg) :
        agg[a].res # 0 =>
            /\ agg[a].pc = "resolving" =>
                 (Gathered(a) = {} /\ agg[a].wiki = 0 /\ agg[a].diki = 0)
            /\ Gathered(a) \subseteq {agg[a].wiki, agg[a].diki}
            /\ \A i \in Gathered(a) :
                 /\ Ended(calls[agg[a].res])
                 /\ Started(calls[i]) => agg[a].res \in calls[i].prior
            /\ agg[a].pc \in {"responded", "failed"} /\ agg[a].diki # 0 =>
                 /\ Ended(calls[agg[a].diki])
                 /\ agg[a].wiki # 0 => Ended(calls[agg[a].wiki])
            /\ agg[a].pc = "responded" =>
                 /\ agg[a].diki # 0
                 /\ agg[a].out[1].diki = calls[agg[a].diki].ret[1]
                 /\ agg[a].out[1].wikipedia =
                      (IF agg[a].wiki = 0 THEN None ELSE calls[agg[a].wiki].ret)

\* both lookups are in flight together and the dictionary lookup settles
\* while the cross-reference lookup still waits for its second response
C15_Witness ==
    \E a \in 1..Len(agg) :
        /\ agg[a].pc = "gathering"
        /\ agg[a].wiki # 0
        /\ calls[agg[a].wiki].pc = "pageprops"
        /\ calls[agg[a].diki].pc = "done"
        /\ calls[agg[a].diki].reqs >= 1
        /\ calls[agg[a].diki].start = calls[agg[a].wiki].start
        /\ agg[a].wiki \notin calls[agg[a].diki].prior

\* C16: the operations return no shared mutable state by reference: whatever
\* a caller does to a list or mapping it received, the entry of every key
\* is as one of the calls wrote it, and a later call served from the store
\* returns the value an earlier call of that key computed and wrote.
C16_ReturnedValuesNotShared ==
    /\ \A key \in DOMAIN cache :
         \E i \in CallIds :
             calls[i].key = key /\ calls[i].wrote = Some(cache[key])
    /\ \A j \in CallIds :
         (calls[j].pc = "done" /\ calls[j].hit) =>
             \E i \in calls[j].prior :
                 /\ calls[i].key = calls[j].key
                 /\ calls[i].wrote # None
                 /\ calls[j].ret = calls[i].wrote[1].data

\* the cleaned source-side ("en") or target-side ("pl") terms of a region,
\* in document order
SideTerms(b, side) ==
    IF side = "en"
    THEN MapClean(SelectSeq(scope_terms(<<>>, b.en), cleans_nonempty))
    ELSE MapCleanStripped(SelectSeq(scope_terms(<<>>, b.pl), cleans_nonempty))

\* the candidate pairs a region may contribute: none without both labels,
\* else its first 3 source-side terms with its first 5 target-side terms
Candidates(b) ==
    IF b.en = <<>> \/ b.pl = <<>> THEN {}
    ELSE { <<SideTerms(b, "en")[i], SideTerms(b, "pl")[j]>> :
             i \in {k \in 1..3 : k <= Len(SideTerms(b, "en"))},
             j \in {k \in 1..5 : k <= Len(SideTerms(b, "pl"))} }

\* the candidates of all regions of the page whose two strings are not empty
PageCandidates ==
    { pr \in UNION { Candidates(find_blocks(doc.page)[k]) :
                        k \in 1..Len(find_blocks(doc.page)) } :
        pr[1] # <<>> /\ pr[2] # <<>> }

\* C21: a region without the source-language label or without the
\* target-language label contributes no pair, and a region with both
\* contributes at most 15 candidates, its first 3 source-side terms at
\* most with its first 5 target-side terms at most: when some region yields
\* a candidate the pairs returned are candidates of the page (all of them
\* when no limit applies), and when none does the pairs come from the
\* query-term fallback alone.
C21_RegionProductBounded ==
    xpc = "pairs" =>
        /\ \A k \in 1..Len(find_blocks(doc.page)) :
             Cardinality(Candidates(find_blocks(doc.page)[k])) <= 15
        /\ IF PageCandidates # {}
           THEN /\ \A i \in 1..Len(terms) : terms[i] \in PageCandidates
                /\ ~(doc.max # None /\ doc.max[1] > 0) =>
                     {terms[i] : i \in 1..Len(terms)} = PageCandidates
           ELSE \A i \in 1..Len(terms) :
                   /\ terms[i][1] = pairs_query_term(PairInput)
                   /\ \E k \in 1..Len(extract_polish_terms(doc.page)) :
                        terms[i][2] = extract_polish_terms(doc.page)[k]

\* a page whose first region has a label of one language only, with terms,
\* and whose second has four source-side and six target-side terms: the 15
\* pairs returned are all from the second region
C21_Witness ==
    /\ xpc = "pairs"
    /\ doc.max = None
    /\ Len(doc.page.blocks) = 2
    /\ doc.page.blocks[1].pl = <<>>
    /\ scope_terms(<<>>, doc.page.blocks[1].en) # <<>>
    /\ Len(SideTerms(doc.page.blocks[2], "en")) = 4
    /\ Len(SideTerms(doc.page.blocks[2], "pl")) = 6
    /\ Len(terms) = 15
    /\ \A i \in 1..Len(terms) :
         /\ terms[i][1] # SideTerms(doc.page.blocks[2], "en")[4]
         /\ terms[i][2] # SideTerms(doc.page.blocks[2], "pl")[6]
         /\ terms[i][1] \in {<<"a">>, <<"b">>, <<"c">>}

\* the steps at which the call received a response, in order
StepsOf(c) == [k \in 1..Len(c.trail) |-> c.trail[k].step]

\* C22: a diki_lookup call issues at most two transport requests: none on a
\* cache hit or an empty query, and a second one only after the first
\* succeeded with a body that lacks both structural markers; no call of any
\* operation issues the same request twice (the cross-reference locator's
\* three requests are three different ones, every other operation issues
\* at most one).
C22_AtMostOneRetry ==
    \A i \in CallIds :
        LET c == calls[i]
        IN /\ c.hit => c.reqs = 0
           /\ \A k \in 1..Len(c.trail), m \in 1..Len(c.trail) :
                k # m => c.trail[k].step # c.trail[m].step
           /\ Len(c.trail) <= c.reqs
           /\ c.op = "diki_lookup" =>
                /\ c.reqs <= 2
                /\ (Started(c) /\ TrimmedArg(c) = <<>>) => c.reqs = 0
                /\ c.reqs = 2 =>
                     /\ c.trail # <<>>
                     /\ c.trail[1] = [step |-> "fetch", out |-> "bare"]
                /\ c.reqs = 1 =>
                     \A k \in 1..Len(c.trail) : c.trail[k].step = "fetch"
           /\ c.op = "english_to_polish_wikipedia" =>
                /\ c.reqs <= 3
                /\ \A k \in 1..Len(c.trail) :
                     c.trail[k].step \in {"langlinks", "pageprops", "wbget"}
           /\ c.op \in {"resolve_en_title", "proz_lookup", "proz_lookup_pairs"} =>
                c.reqs <= 1

\* one call retried after a bare page and returned, and a later identical
\* call was served from the cache without a request
C22_Witness ==
    \E i \in CallIds, j \in CallIds :
        /\ calls[i].op = "diki_lookup"
        /\ calls[i].pc = "done"
        /\ calls[i].reqs = 2
        /\ StepsOf(calls[i]) = <<"fetch", "retry">>
        /\ calls[i].trail[1].out = "bare"
        /\ calls[j].key = calls[i].key
        /\ i \in calls[j].prior
        /\ calls[j].hit
        /\ calls[j].reqs = 0

\* the entry of key k is removed, added or replaced by the step
EntryChanges(k) ==
    \/ k \in DOMAIN cache /\ k \notin DOMAIN cache'
    \/ k \notin DOMAIN cache /\ k \in DOMAIN cache'
    \/ k \in DOMAIN cache /\ k \in DOMAIN cache' /\ cache'[k] # cache[k]

\* a step changes the entry of k only through a call of key k: the entry
\* goes away only when that call reads it stale, and a new entry is that
\* call's write
CacheFrameStep ==
    \A k \in DOMAIN cache \cup DOMAIN cache' :
        EntryChanges(k) =>
            \E i \in 1..Len(calls') :
                /\ calls'[i].key = k
                /\ i > Len(calls) \/ calls'[i] # calls[i]
                /\ (k \in DOMAIN cache /\ k \notin DOMAIN cache') =>
                     /\ now - cache[k].ts > CACHE_TTL
                     /\ calls'[i].start = now
                     /\ calls'[i].seen = Some(cache[k])
                /\ k \in DOMAIN cache' => calls'[i].wrote = Some(cache'[k])

\* C23: expiry is lazy and local to the key read: a read of key k removes
\* at most the entry of k, and only when it is stale, and leaves every
\* other entry as it was; a stale entry stays in the store until a call of
\* its own key reads or overwrites it (the passing of time removes
\* nothing); a write changes the entry of its own key only.
C23_LazyLocalExpiry == [][CacheFrameStep]_vars

\* an entry older than the TTL is still in the store, as written, after a
\* call of another key has read the store and written its own entry
C23_Witness ==
    \E k \in DOMAIN cache, i \in CallIds, j \in CallIds :
        /\ calls[i].key = k
        /\ calls[i].wrote = Some(cache[k])
        /\ calls[j].key # k
        /\ calls[j].start - cache[k].ts > CACHE_TTL
        /\ calls[j].wrote # None
        /\ calls[j].key \in DOMAIN cache
        /\ cache[calls[j].key] = calls[j].wrote[1]

\* C24: a call of resolve_en_title, diki_lookup, proz_lookup or
\* proz_lookup_pairs whose query is empty or whitespace only issues no
\* remote request and returns the operation's no-result value (absent, or
\* the empty list).
C24_BlankQueryNoRemote ==
    \A i \in CallIds :
        LET c == calls[i]
        IN ( /\ c.op \in {"resolve_en_title", "diki_lookup",
                          "proz_lookup", "proz_lookup_pairs"}
             /\ Started(c)
             /\ TrimmedArg(c) = <<>> )
           => /\ c.reqs = 0
              /\ c.pc = "done"
              /\ c.ret = NoResult(c.op)

\* call i returns in this step
Returns(i) ==
    /\ calls'[i].pc = "done"
    /\ i > Len(calls) \/ calls[i].pc # "done"

\* a call that returns without a hit leaves the store with its result under
\* its key, written at this step, and with no other entry changed
ReturnStep ==
    \A i \in 1..Len(calls') :
        (Returns(i) /\ ~calls'[i].hit) =>
            /\ calls'[i].key \in DOMAIN cache'
            /\ cache'[calls'[i].key] = [ts |-> now, data |-> calls'[i].ret]
            /\ calls'[i].wrote = Some(cache'[calls'[i].key])
            /\ i <= Len(calls) => calls[i].wrote = None
            /\ \A k \in (DOMAIN cache \cup DOMAIN cache') \ {calls'[i].key} :
                 ~EntryChanges(k)

\* C25: every call of a memoized operation that returns without a cache
\* hit writes one entry, for its own key, before it returns, and the entry
\* holds the value returned: on every return path (success, empty input,
\* transport failure, parse failure, fallback) the store right after the
\* return maps the call's key to the call's result.
C25_ReturnWritesOwnKey == [][ReturnStep]_vars

\* calls that returned on a failure path and on a success path, neither
\* from the store, each with its result under its key
C25_Witness ==
    \E i \in CallIds, j \in CallIds :
        /\ calls[i].op = "english_to_polish_wikipedia"
        /\ calls[i].pc = "done"
        /\ ~calls[i].hit
        /\ StepsOf(calls[i]) = <<"langlinks", "pageprops", "wbget">>
        /\ LastOutcome(calls[i]) = "error"
        /\ calls[i].ret = None
        /\ cache[calls[i].key].data = None
        /\ calls[j].op = "proz_lookup_pairs"
        /\ calls[j].pc = "done"
        /\ ~calls[j].hit
        /\ calls[j].ret # Some(<<>>)
        /\ cache[calls[j].key].data = calls[j].ret

\* str.upper(), one character
UpperChar(ch) ==
    IF \E i \in 1..26 : LowerChars[i] = ch
    THEN UpperChars[CHOOSE i \in 1..26 : LowerChars[i] = ch]
    ELSE ch

\* the spellings of a term: every choice of letter case, bare or with
\* whitespace around it
Spellings(term) ==
    LET cased == { s \in [1..Len(term) -> {UpperChar(term[i]) : i \in 1..Len(term)}
                                            \cup {term[i] : i \in 1..Len(term)}] :
                     \A i \in 1..Len(term) : s[i] \in {term[i], UpperChar(term[i])} }
    IN cased \cup { <<" ">> \o s \o <<"\t", "\n">> : s \in cased }

\* C26: after any sequence of dictionary lines, repeated headwords
\* included, every value of the index is a key of the entries, and lookup
\* of an indexed headword or variant, in any letter case and with
\* whitespace around it, returns an entry, never None.
C26_IndexedTermsResolve ==
    \A k \in DOMAIN dsl.index :
        /\ dsl.index[k] \in DOMAIN dsl.entries
        /\ \A t \in Spellings(k) :
             /\ lookup(dsl, t) # None
             /\ lookup(dsl, t)[1] = dsl.entries[dsl.index[k]]

\* a headword got a tagged variant and was then written again in another
\* letter case: the variant still resolves, to the entry that replaced the
\* one it was read under
C26_Witness ==
    /\ <<"x">> \in DOMAIN dsl.index
    /\ dsl.index[<<"x">>] = <<"a">>
    /\ dsl.entries[<<"a">>].headword = <<"A">>
    /\ dsl.entries[<<"a">>].variants = <<>>
    /\ lookup(dsl, <<" ", "X", "\t", "\n">>) = Some(dsl.entries[<<"a">>])
    /\ lookup(dsl, <<"A">>) = lookup(dsl, <<"a">>)

=============================================================================
